---- MODULE Spec2Model ----
(***************************************************************************)
(* AraNES: the plugin loader (core/plugin/loader.py) and the permissions   *)
(* schema registry (core/permission.py) as state machines.                 *)
(*                                                                         *)
(* SpecLoader: one PluginRegistry and one FastAPI application, driven by   *)
(* its public operations, with the plugin tree and the state file edited   *)
(* from outside between operations.                                        *)
(* SpecPerm:   one PermissionsRegistry driven by register / unregister and *)
(* its read operations.                                                    *)
(* SpecDocs:   the interface description, its cache and its filter.        *)
(* SpecManage: the management routes.                                      *)
(* SpecLocks:  the threads and the reentrant locks of the two registries.  *)
(* SpecThreads: the calls of the PluginRegistry, statement by statement,   *)
(* on two threads.                                                         *)
(* SpecBinders: include_plugins, statement by statement, on two threads.   *)
(* SpecNames:  the composed names of fragments named as Python names are.  *)
(* SpecClient: the cached client of the in-process requests                *)
(* (core/inprocess_http.py), coroutine by coroutine.                       *)
(* SpecKeys:   the store and the loader with nobody else writing the state *)
(* file.                                                                   *)
(***************************************************************************)
EXTENDS Integers, Sequences, FiniteSets, TLC

VARIABLES
    fs,                  \* plugins_dir: plugin name -> directory / app.py
    state_file,          \* plugins_registry.json
    edits,               \* number of outside edits made so far
    _state,              \* PluginRegistry._state
    _state_mtime,        \* PluginRegistry._state_mtime
    _module_mtimes,      \* PluginRegistry._module_mtimes
    _records,            \* PluginRegistry._records
    sys_modules,         \* sys.modules, plugin modules only
    routes,              \* app.router.routes
    registered_plugins,  \* app.state._plugin_routes_registry
    openapi_schema,      \* app.openapi_schema, the cached interface description
    unseen,              \* the state file was edited outside and kept its fingerprint
    out,                 \* the last call and what it returned
    _plugins,            \* PermissionsRegistry._plugins, in insertion order
    _fields,             \* PermissionsRegistry._fields
    _collisions,         \* PermissionsRegistry._collisions
    _model,              \* PermissionsRegistry._model
    _dirty,              \* PermissionsRegistry._dirty
    _change_listeners,   \* PermissionsRegistry._change_listeners
    obj,                 \* the instance of the composed schema the caller holds
    roles,               \* the roles table: role name -> persisted permissions
    tmp,                 \* plugins_registry.json.tmp
    writer,              \* the call that is inside _save_state, and where it is
    locks,               \* the two RLocks: who holds each, and how many times
    threads,             \* per thread, the stack of the calls it is inside
    app_state,           \* app.state of inprocess_http and the shutdown handlers of the app
    clients,             \* the httpx.AsyncClient objects made so far: open or closed
    tasks                \* per task of the event loop, the coroutine it runs

loaderState == <<fs, state_file, edits, _state, _state_mtime, _module_mtimes,
                 _records, sys_modules, routes, registered_plugins, openapi_schema,
                 unseen>>
loaderVars == <<loaderState, out>>

permVars == <<_plugins, _fields, _collisions, _model, _dirty, _change_listeners, obj>>

userVars == <<roles>>
ioVars == <<tmp, writer>>
lockVars == <<locks, threads>>
httpVars == <<app_state, clients, tasks>>

vars == <<loaderVars, permVars, userVars, ioVars, lockVars, httpVars>>

----------------------------------------------------------------------------
(* Bounds *)

MaxMtime == 2
MaxEdits == 3
MaxRegistered == 2

(* Python values *)

None == "None"
NoMtime == 0
EmptyMap == [x \in {} |-> FALSE]

Put(d, k, v) == [x \in (DOMAIN d) \cup {k} |-> IF x = k THEN v ELSE d[x]]
Pop(d, k) == [x \in (DOMAIN d) \ {k} |-> d[x]]
Get(d, k, default) == IF k \in DOMAIN d THEN d[k] ELSE default

RECURSIVE SeqOf(_)
SeqOf(S) == IF S = {} THEN <<>>
            ELSE LET x == CHOOSE y \in S : TRUE IN <<x>> \o SeqOf(S \ {x})

Range(s) == {s[i] : i \in DOMAIN s}

FreshId(used) ==
    CHOOSE k \in 1..(Cardinality(used) + 1) :
        k \notin used /\ \A j \in 1..(k - 1) : j \in used

----------------------------------------------------------------------------
(* Threads and the reentrant locks of the two registries *)

Threads == {"t1", "t2"}
NoThread == "None"
\* PluginRegistry._lock and PermissionsRegistry._lock
LoaderLock == "loader"
PermLock == "perm"
NoLocks == [l \in {LoaderLock, PermLock} |-> [owner |-> NoThread, count |-> 0]]
NoCalls == [t \in Threads |-> <<>>]

\* the tasks of the event loop, and a task that runs nothing
Tasks == {"k1", "k2", "k3"}
NoClient == 0
NoTask == [op |-> "None", pc |-> "None", client |-> NoClient]
NoTasks == [k \in Tasks |-> NoTask]
\* app.state without the attributes of inprocess_http, no shutdown handler
NoAppState == [lock |-> FALSE, client |-> NoClient, hook |-> FALSE, on_shutdown |-> 0]

----------------------------------------------------------------------------
(* The plugin tree and the text of app.py *)

Plugins == {"a", "b"}
Mtimes == 1..MaxMtime
Sources == {"v1", "v2", "bad"}

NoDir == [dir |-> FALSE, app |-> FALSE, src |-> None, mtime |-> NoMtime]
EmptyDir == [dir |-> TRUE, app |-> FALSE, src |-> None, mtime |-> NoMtime]
AppDir(src, m) == [dir |-> TRUE, app |-> TRUE, src |-> src, mtime |-> m]

\* exec_module raises for this text
Raises(src) == src = "bad"
\* the APIRouter objects bound at top level, each with the paths of its routes
RouterPaths(src) ==
    CASE src = "v1" -> << <<"ping">> >>
      [] src = "v2" -> << <<"ping">>, <<"pong">> >>
      [] src = "empty" -> << <<>> >>
      [] OTHER -> <<>>
\* the top-level binding VALUE
ValueOf(src) == CASE src = "v1" -> 1 [] src = "v2" -> 2 [] OTHER -> 0
ErrorOf(src) == "boom"

_iter_plugin_dirs(files) == SeqOf({p \in Plugins : files[p].dir})

\* re.sub of the characters outside [a-zA-Z0-9_]: the names of Plugins have none
SafeName(plugin_name) == plugin_name
ModuleName(plugin_name) == <<"plugin", SafeName(plugin_name), <<"md5", plugin_name>>>>

_find_router_objects(module) ==
    [i \in DOMAIN RouterPaths(module.src) |->
        [module |-> module.id, src |-> module.src, idx |-> i,
         paths |-> RouterPaths(module.src)[i]]]

PluginRecord(name, module_name, routers, enabled, error, module_mtime_ns, rid) ==
    [name |-> name, module_name |-> module_name, routers |-> routers,
     enabled |-> enabled, error |-> error, module_mtime_ns |-> module_mtime_ns,
     rid |-> rid]

----------------------------------------------------------------------------
(* The state file *)

NoFile == [exists |-> FALSE, ok |-> FALSE, data |-> EmptyMap, mtime |-> NoMtime]

JsonBool(b) == IF b THEN "true" ELSE "false"
PyBool(v) == v \in {"true", "1"}
JsonValues == {"true", "false"}

Dumps(st) == [k \in DOMAIN st |-> JsonBool(st[k])]

_state_file_mtime(file) == IF file.exists THEN file.mtime ELSE NoMtime

_load_state(file) ==
    IF ~file.exists THEN EmptyMap
    ELSE IF file.ok THEN [k \in DOMAIN file.data |-> PyBool(file.data[k])]
    ELSE EmptyMap

\* self is the registry: [state, state_mtime, module_mtimes, records]
Self == [state |-> _state, state_mtime |-> _state_mtime,
         module_mtimes |-> _module_mtimes, records |-> _records]

StateGet(st, name) == Get(st, name, FALSE)

\* _save_state: the file it leaves, written at time m
SavedFile(self, m) == [exists |-> TRUE, ok |-> TRUE, data |-> Dumps(self.state), mtime |-> m]
_save_state(self, m) == [self EXCEPT !.state_mtime = _state_file_mtime(SavedFile(self, m))]

\* _save_state step by step: the payload goes to the file at SavePath, which
\* is then moved over the state file
SavePathTarget == "target"
SavePath == "tmp"
Files == [target |-> state_file, tmp |-> tmp]
\* a file that was opened for writing and does not hold the whole payload yet
Opened(m) == [exists |-> TRUE, ok |-> FALSE, data |-> EmptyMap, mtime |-> m]
WriteText(files, path, content) == [files EXCEPT ![path] = content]
ReplaceFile(files, path) ==
    IF path = "target" THEN files
    ELSE [target |-> files[path], tmp |-> NoFile]
NoWriter == [pc |-> "idle"]

_sync_records_enabled(records, st) ==
    [n \in DOMAIN records |-> [records[n] EXCEPT !.enabled = StateGet(st, n)]]

\* a refresh that reads the file again only when its mtime has grown
RefreshIfNewer(self, file) ==
    LET current_mtime == _state_file_mtime(file) IN
    IF current_mtime = NoMtime THEN
        [self EXCEPT !.state = EmptyMap,
                     !.records = IF self.state # EmptyMap
                                 THEN _sync_records_enabled(@, EmptyMap) ELSE @,
                     !.state_mtime = NoMtime]
    ELSE IF self.state_mtime = NoMtime \/ current_mtime > self.state_mtime THEN
        LET st == _load_state(file) IN
        [self EXCEPT !.state = st,
                     !.state_mtime = current_mtime,
                     !.records = _sync_records_enabled(@, st)]
    ELSE self

\* a refresh that keeps the map it has when the file cannot be parsed
RefreshKeepingOnFailure(self, file) ==
    LET current_mtime == _state_file_mtime(file) IN
    IF current_mtime = NoMtime THEN
        [self EXCEPT !.state = EmptyMap,
                     !.records = IF self.state # EmptyMap
                                 THEN _sync_records_enabled(@, EmptyMap) ELSE @,
                     !.state_mtime = NoMtime]
    ELSE IF self.state_mtime = NoMtime \/ current_mtime # self.state_mtime THEN
        LET st == IF file.ok THEN _load_state(file) ELSE self.state IN
        [self EXCEPT !.state = st,
                     !.state_mtime = current_mtime,
                     !.records = _sync_records_enabled(@, st)]
    ELSE self

_refresh_state_from_disk(self, file) ==
    LET current_mtime == _state_file_mtime(file) IN
    IF current_mtime = NoMtime THEN
        [self EXCEPT !.state = EmptyMap,
                     !.records = IF self.state # EmptyMap
                                 THEN _sync_records_enabled(@, EmptyMap) ELSE @,
                     !.state_mtime = NoMtime]
    ELSE IF self.state_mtime = NoMtime \/ current_mtime # self.state_mtime THEN
        LET st == _load_state(file) IN
        [self EXCEPT !.state = st,
                     !.state_mtime = current_mtime,
                     !.records = _sync_records_enabled(@, st)]
    ELSE self

----------------------------------------------------------------------------
(* PluginRegistry operations.  Each returns the registry it leaves (self)   *)
(* with what else it produced.                                              *)

is_enabled(self, file, name) ==
    LET s1 == _refresh_state_from_disk(self, file) IN
    [self |-> s1, ret |-> StateGet(s1.state, name)]

\* an enable / disable that changes the map it has without looking at the file
SetFlagWithoutRefresh(self, file, name, value, m) ==
    LET s2 == [self EXCEPT !.state = Put(@, name, value)]
        s3 == _save_state(s2, m)
    IN [self |-> [s3 EXCEPT !.records =
                     IF name \in DOMAIN @ THEN [@ EXCEPT ![name].enabled = value] ELSE @],
        file |-> SavedFile(s2, m)]

SetFlag(self, file, name, value, m) ==
    LET s1 == _refresh_state_from_disk(self, file)
        s2 == [s1 EXCEPT !.state = Put(@, name, value)]
        s3 == _save_state(s2, m)
    IN [self |-> [s3 EXCEPT !.records =
                     IF name \in DOMAIN @ THEN [@ EXCEPT ![name].enabled = value] ELSE @],
        file |-> SavedFile(s2, m)]

enable(self, file, name, m) == SetFlag(self, file, name, TRUE, m)
disable(self, file, name, m) == SetFlag(self, file, name, FALSE, m)

list(self, file) ==
    LET s1 == _refresh_state_from_disk(self, file)
        s2 == [s1 EXCEPT !.records = _sync_records_enabled(@, s1.state)]
    IN [self |-> s2, ret |-> SeqOf({s2.records[n] : n \in DOMAIN s2.records})]

get(self, file, name) ==
    LET s1 == _refresh_state_from_disk(self, file)
        s2 == IF name \in DOMAIN s1.records
              THEN [s1 EXCEPT !.records[name].enabled = StateGet(s1.state, name)]
              ELSE s1
    IN [self |-> s2, found |-> name \in DOMAIN s2.records,
        ret |-> IF name \in DOMAIN s2.records THEN s2.records[name] ELSE None]

_module_mtime(files, p) == IF files[p].app THEN files[p].mtime ELSE NoMtime

\* a cache-hit test that does not look at the error of the record
CacheHitIgnoringError(self, p, module_name, module_mtime) ==
    /\ p \in DOMAIN self.records
    /\ self.records[p].module_name = module_name
    /\ module_mtime # NoMtime
    /\ Get(self.module_mtimes, p, NoMtime) = module_mtime

\* a cache-hit test that does not compare the fingerprints
CacheHitIgnoringMtime(self, p, module_name, module_mtime) ==
    /\ p \in DOMAIN self.records
    /\ self.records[p].error = None
    /\ self.records[p].module_name = module_name
    /\ module_mtime # NoMtime

\* the cache-hit test of load_plugins
CacheHit(self, p, module_name, module_mtime) ==
    /\ p \in DOMAIN self.records
    /\ self.records[p].error = None
    /\ self.records[p].module_name = module_name
    /\ module_mtime # NoMtime
    /\ Get(self.module_mtimes, p, NoMtime) = module_mtime

\* the objects of plugin p that are alive: a new object is none of them
LiveModules(p, mods, records, table) ==
    {mods[k].id[2] : k \in {k \in DOMAIN mods : mods[k].id[1] = p}}
    \cup (IF p \in DOMAIN records
          THEN {records[p].routers[i].module[2] : i \in DOMAIN records[p].routers}
          ELSE {})
    \cup {table[i].endpoint[2] : i \in {i \in DOMAIN table : table[i].endpoint[1] = p}}
LiveRecords(p, records) == IF p \in DOMAIN records THEN {records[p].rid} ELSE {}

\* the import of app.py: the module object left in sys.modules
ExecModule(p, src, live) == [id |-> <<p, FreshId(live)>>, src |-> src]

\* a missing app.py that leaves the cached fingerprint of the plugin in place
MissingEntryKeepingMtime(acc, p, rid) ==
    [acc EXCEPT
        !.self.records = Put(@, p, PluginRecord(p, ModuleName(p), <<>>,
                                                StateGet(acc.self.state, p),
                                                "app.py not found", NoMtime, rid)),
        !.ret = Append(@, p)]

\* load_plugins, lines 175-188: the directory holds no app.py
MissingEntry(acc, p, rid) ==
    [acc EXCEPT
        !.self.records = Put(@, p, PluginRecord(p, ModuleName(p), <<>>,
                                                StateGet(acc.self.state, p),
                                                "app.py not found", NoMtime, rid)),
        !.self.module_mtimes = Pop(@, p),
        !.ret = Append(@, p)]

\* load_plugins, lines 200-203: the cached record is returned
Hit(acc, p, module_mtime) ==
    [acc EXCEPT
        !.self.records[p].enabled = StateGet(acc.self.state, p),
        !.self.records[p].module_mtime_ns = module_mtime,
        !.ret = Append(@, p)]

\* load_plugins, lines 205-242: the old module is dropped and app.py is run;
\* what it raises is caught and becomes the error of the record
\* a reload without the except clause: what app.py raises leaves the pass
ReloadUncaught(acc, p, src, module_mtime, rid, live) ==
    LET mods1 == IF p \in DOMAIN acc.self.records
                 THEN Pop(acc.mods, acc.self.records[p].module_name)
                 ELSE acc.mods
        module == ExecModule(p, src, live)
    IN IF Raises(src)
       THEN [acc EXCEPT !.mods = Put(mods1, ModuleName(p), module),
                        !.executed = @ \cup {p},
                        !.raised = TRUE]
       ELSE [acc EXCEPT
                !.mods = Put(mods1, ModuleName(p), module),
                !.self.records = Put(@, p, PluginRecord(p, ModuleName(p),
                                        _find_router_objects(module),
                                        StateGet(acc.self.state, p), None, module_mtime, rid)),
                !.self.module_mtimes =
                    IF module_mtime # NoMtime THEN Put(@, p, module_mtime) ELSE @,
                !.executed = @ \cup {p},
                !.ret = Append(@, p)]

Reload(acc, p, src, module_mtime, rid, live) ==
    LET enabled == StateGet(acc.self.state, p)
        mods1 == IF p \in DOMAIN acc.self.records
                 THEN Pop(acc.mods, acc.self.records[p].module_name)
                 ELSE acc.mods
        module == ExecModule(p, src, live)
        record == IF Raises(src)
                  THEN PluginRecord(p, ModuleName(p), <<>>, enabled,
                                    ErrorOf(src), module_mtime, rid)
                  ELSE PluginRecord(p, ModuleName(p), _find_router_objects(module),
                                    enabled, None, module_mtime, rid)
    IN [acc EXCEPT
            !.mods = Put(mods1, ModuleName(p), module),
            !.self.records = Put(@, p, record),
            !.self.module_mtimes =
                IF module_mtime # NoMtime THEN Put(@, p, module_mtime) ELSE @,
            !.executed = @ \cup {p},
            !.ret = Append(@, p)]

\* one turn of the loop of load_plugins, for the directory of plugin p
LoadOne(acc, p, files, table) ==
    LET rid == FreshId(LiveRecords(p, acc.self.records))
        module_mtime == _module_mtime(files, p)
    IN IF ~files[p].app THEN MissingEntry(acc, p, rid)
       ELSE IF CacheHit(acc.self, p, ModuleName(p), module_mtime)
            THEN Hit(acc, p, module_mtime)
            ELSE Reload(acc, p, files[p].src, module_mtime, rid,
                        LiveModules(p, acc.mods, acc.self.records, table))

\* the loop of load_plugins; an exception that leaves a turn ends it
RECURSIVE LoadLoop(_, _, _, _)
LoadLoop(acc, dirs, files, table) ==
    IF dirs = <<>> \/ acc.raised THEN acc
    ELSE LoadLoop(LoadOne(acc, Head(dirs), files, table), Tail(dirs), files, table)

\* the records of plugins whose directory is gone, and their modules
DropStale(acc, plugins_found) ==
    LET stale_records == {n \in DOMAIN acc.self.records : n \notin plugins_found} IN
    [acc EXCEPT
        !.self.records = [n \in (DOMAIN @) \ stale_records |-> @[n]],
        !.self.module_mtimes = [n \in (DOMAIN @) \ stale_records |-> @[n]],
        !.mods = [k \in (DOMAIN @) \ {acc.self.records[n].module_name : n \in stale_records}
                    |-> @[k]]]

\* a sync that adds the defaults and keeps the stale keys
SyncWithoutPruning(self, file, names, m) ==
    LET found == Range(names)
        missing == {n \in found : n \notin DOMAIN self.state}
        st == [k \in (DOMAIN self.state) \cup missing |->
                 IF k \in DOMAIN self.state THEN self.state[k] ELSE FALSE]
        updated == missing # {}
        s1 == [self EXCEPT !.state = st]
    IN IF updated \/ ~file.exists
       THEN [self |-> _save_state(s1, m), file |-> SavedFile(s1, m), updated |-> updated]
       ELSE [self |-> s1, file |-> file, updated |-> updated]

\* a sync that deletes the stale entries in memory and writes the file only
\* for an entry it added
SyncPruningUnsaved(self, file, names, m) ==
    LET found == Range(names)
        missing == {n \in found : n \notin DOMAIN self.state}
        stale_keys == {k \in DOMAIN self.state : k \notin found}
        st == [k \in ((DOMAIN self.state) \cup missing) \ stale_keys |->
                 IF k \in DOMAIN self.state THEN self.state[k] ELSE FALSE]
        updated == missing # {} \/ stale_keys # {}
        s1 == [self EXCEPT !.state = st]
    IN IF missing # {} \/ ~file.exists
       THEN [self |-> _save_state(s1, m), file |-> SavedFile(s1, m), updated |-> updated]
       ELSE [self |-> s1, file |-> file, updated |-> updated]

\* _sync_plugin_states: [self, file] after it, the file written at time m if at all
_sync_plugin_states(self, file, names, m) ==
    LET found == Range(names)
        missing == {n \in found : n \notin DOMAIN self.state}
        stale_keys == {k \in DOMAIN self.state : k \notin found}
        st == [k \in ((DOMAIN self.state) \cup missing) \ stale_keys |->
                 IF k \in DOMAIN self.state THEN self.state[k] ELSE FALSE]
        updated == missing # {} \/ stale_keys # {}
        s1 == [self EXCEPT !.state = st]
    IN IF updated \/ ~file.exists
       THEN [self |-> _save_state(s1, m), file |-> SavedFile(s1, m), updated |-> updated]
       ELSE [self |-> s1, file |-> file, updated |-> updated]

load_plugins(self, file, files, mods, table, m) ==
    LET s1 == _refresh_state_from_disk(self, file)
        acc0 == [self |-> s1, mods |-> mods, executed |-> {}, ret |-> <<>>,
                 raised |-> FALSE]
        acc1 == LoadLoop(acc0, _iter_plugin_dirs(files), files, table)
        acc2 == DropStale(acc1, Range(acc1.ret))
        synced == _sync_plugin_states(acc2.self, file, acc2.ret, m)
    IN [self |-> synced.self, file |-> synced.file, mods |-> acc2.mods,
        executed |-> acc2.executed, ret |-> acc2.ret, updated |-> synced.updated]

----------------------------------------------------------------------------
(* The routing table of the application *)

PluginTag(plugin_name) == <<"plugin", plugin_name>>

\* app.openapi_schema when it is None: no description is cached
NoDescription == [cached |-> FALSE, routes |-> <<>>, request_body |-> EmptyMap,
                  schemas |-> EmptyMap]

_is_plugin_route(route, plugin_name) == PluginTag(plugin_name) \in route.tags

_remove_plugin_routes(table, plugin_name) ==
    LET remaining == SelectSeq(table, LAMBDA r : ~_is_plugin_route(r, plugin_name))
    IN [routes |-> remaining, changed |-> Len(remaining) # Len(table)]

\* app.include_router(router, prefix, tags, dependencies)
include_router(table, router, name) ==
    table \o [i \in 1..Len(router.paths) |->
                [path |-> <<"plugins", name, router.paths[i]>>,
                 tags |-> {PluginTag(name)},
                 guard |-> name,
                 endpoint |-> router.module,
                 src |-> router.src]]

RECURSIVE IncludeRouters(_, _, _)
IncludeRouters(table, routers, name) ==
    IF routers = <<>> THEN table
    ELSE IncludeRouters(include_router(table, Head(routers), name), Tail(routers), name)

\* a turn that binds a changed record without unbinding its old routes
BindOneKeepingOld(app, record) ==
    LET name == record.name IN
    IF name \in DOMAIN app.registered /\ app.registered[name] = record.module_mtime_ns
    THEN app
    ELSE IF record.routers = <<>>
    THEN [app EXCEPT !.registered = Pop(@, name)]
    ELSE [app EXCEPT !.routes = IncludeRouters(@, record.routers, name),
                     !.registered = Put(@, name, record.module_mtime_ns),
                     !.changed = TRUE]

\* a turn that binds again what is bound with the same fingerprint
BindOneAgain(app, record) ==
    LET name == record.name
        removed == _remove_plugin_routes(app.routes, name)
        a1 == IF name \in DOMAIN app.registered
              THEN [app EXCEPT !.routes = removed.routes,
                               !.changed = @ \/ removed.changed]
              ELSE app
    IN IF record.routers = <<>>
       THEN [a1 EXCEPT !.registered = Pop(@, name)]
       ELSE [a1 EXCEPT !.routes = IncludeRouters(@, record.routers, name),
                       !.registered = Put(@, name, record.module_mtime_ns),
                       !.changed = TRUE]

\* app is [routes, registered, changed, stale]; one turn of the second loop of include_plugins
BindOne(app, record) ==
    LET name == record.name
        bound == name \in DOMAIN app.registered
    IN
    IF bound /\ app.registered[name] = record.module_mtime_ns THEN app
    ELSE
        LET removed == _remove_plugin_routes(app.routes, name)
            a1 == IF bound
                  THEN [app EXCEPT !.routes = removed.routes,
                                   !.changed = @ \/ removed.changed]
                  ELSE app
        IN IF record.routers = <<>>
           THEN [a1 EXCEPT !.registered = Pop(@, name)]
           ELSE [a1 EXCEPT !.routes = IncludeRouters(@, record.routers, name),
                           !.registered = Put(@, name, record.module_mtime_ns),
                           !.changed = TRUE]

RECURSIVE BindLoop(_, _)
BindLoop(app, records) ==
    IF records = <<>> THEN app
    ELSE BindLoop(BindOne(app, Head(records)), Tail(records))

\* an unbind that forgets the plugin and leaves its routes in the table
UnbindOneKeepingRoutes(app, name) ==
    [app EXCEPT !.registered = Pop(@, name)]

\* one turn of the first loop of include_plugins
UnbindOne(app, name) ==
    LET removed == _remove_plugin_routes(app.routes, name) IN
    [app EXCEPT !.routes = removed.routes,
                !.changed = @ \/ removed.changed,
                !.registered = Pop(@, name)]

RECURSIVE UnbindLoop(_, _)
UnbindLoop(app, stale) ==
    IF stale = <<>> THEN app
    ELSE UnbindLoop(UnbindOne(app, Head(stale)), Tail(stale))

\* include_plugins, after its call of load_plugins returned `records`
BindRecords(table, registered, records) ==
    LET current_names == {records[i].name : i \in DOMAIN records}
        app0 == [routes |-> table, registered |-> registered, changed |-> FALSE,
                 stale |-> {}]
        stale == SeqOf({n \in DOMAIN registered : n \notin current_names})
    IN [BindLoop(UnbindLoop(app0, stale), records) EXCEPT !.stale = Range(stale)]

include_plugins(self, file, files, mods, table, registered, schema, m) ==
    LET loaded == load_plugins(self, file, files, mods, table, m)
        records == [i \in DOMAIN loaded.ret |-> loaded.self.records[loaded.ret[i]]]
        app == BindRecords(table, registered, records)
    IN [self |-> loaded.self, file |-> loaded.file, mods |-> loaded.mods,
        executed |-> loaded.executed, ret |-> loaded.ret, updated |-> loaded.updated,
        routes |-> app.routes, registered |-> app.registered,
        stale |-> app.stale, routes_changed |-> app.changed,
        openapi_schema |-> IF app.changed THEN NoDescription ELSE schema]

\* the route a request for `path` is matched to: the first one, 0 when there is none
Match(table, path) ==
    LET hits == {i \in DOMAIN table : table[i].path = path} IN
    IF hits = {} THEN 0 ELSE CHOOSE i \in hits : \A j \in hits : i <= j

\* a guard that answers from the map in memory without looking at the file
RequireEnabledUnrefreshed(self, file, name) ==
    [self |-> self, ret |-> StateGet(self.state, name)]

\* _require_plugin_enabled(registry, name) as a dependency of a bound route
_require_plugin_enabled(self, file, name) == is_enabled(self, file, name)

\* a GET of /plugins/<p>/<leaf>: [self, status, endpoint]
HandleRequest(self, file, table, path) ==
    LET i == Match(table, path) IN
    IF i = 0 THEN [self |-> self, status |-> 404, endpoint |-> None]
    ELSE LET dep == _require_plugin_enabled(self, file, table[i].guard) IN
         IF ~dep.ret THEN [self |-> dep.self, status |-> 503, endpoint |-> None]
         ELSE [self |-> dep.self, status |-> 200, endpoint |-> table[i].endpoint]

----------------------------------------------------------------------------
(* The permissions schema registry (core/permission.py).                    *)
(* A str is the sequence of its characters, so that prefixes are normalized *)
(* and names composed as the code does it; a value is written as its literal *)

NoPrefix == <<"None">>
Truthy(s) == s # NoPrefix /\ s # <<>>

\* str.lower on the letters the names of the model are written with
LowerChar(c) ==
    CASE c = "Q" -> "q" [] c = "W" -> "w" [] c = "X" -> "x" [] c = "Y" -> "y"
      [] OTHER -> c
Lower(s) == [i \in DOMAIN s |-> LowerChar(s[i])]
Replace(s, old, new) == [i \in DOMAIN s |-> IF s[i] = old THEN new ELSE s[i]]

RECURSIVE LStrip(_, _)
LStrip(s, c) == IF s # <<>> /\ Head(s) = c THEN LStrip(Tail(s), c) ELSE s
RECURSIVE RStrip(_, _)
RStrip(s, c) ==
    IF s # <<>> /\ s[Len(s)] = c THEN RStrip(SubSeq(s, 1, Len(s) - 1), c) ELSE s
Strip(s, c) == RStrip(LStrip(s, c), c)

RECURSIVE Join(_, _)
Join(sep, parts) ==
    IF parts = <<>> THEN <<>>
    ELSE IF Len(parts) = 1 THEN parts[1]
    ELSE parts[1] \o <<sep>> \o Join(sep, Tail(parts))

_normalize_prefix(prefix) ==
    Lower(Strip(Replace(Replace(prefix, "\\", "/"), "/", ":"), ":"))

\* a composed name without the type name
BuildNameWithoutClass(prefix, class_name, field_name) ==
    Lower(Join(":", (IF Truthy(prefix) THEN <<prefix>> ELSE <<>>) \o <<field_name>>))

_build_transformed_name(prefix, class_name, field_name) ==
    Lower(Join(":", (IF Truthy(prefix) THEN <<prefix>> ELSE <<>>)
                    \o <<class_name, field_name>>))

\* the schema fragments that get registered: pydantic models with defaults
IntLiterals == {"1", "2", "3", "4", "9"}
TypeOf(v) == IF v \in IntLiterals THEN "int" ELSE IF v = None THEN "NoneType" ELSE "str"

\* pydantic's FieldInfo: `default` is PydanticUndefined when none was given;
\* `default_factory` is there when one was given
PydanticUndefined == "PydanticUndefined"
HasFactory(field_info) == "default_factory" \in DOMAIN field_info
is_required(field_info) == field_info.default = PydanticUndefined /\ ~HasFactory(field_info)
\* the default factories in use, called: "make" returns the text "made"
CallFactory(default_factory) == IF default_factory = "make" THEN "made" ELSE "0"
RequiredField(name, annotation) ==
    [name |-> name, annotation |-> annotation,
     field_info |-> [default |-> PydanticUndefined]]
FactoryField(name, annotation, default_factory) ==
    [name |-> name, annotation |-> annotation,
     field_info |-> [default |-> PydanticUndefined, default_factory |-> default_factory]]

FieldOf(name, annotation, default) ==
    [name |-> name, annotation |-> annotation, field_info |-> [default |-> default]]
ModelClass(name, model_fields) ==
    [is_model |-> TRUE, name |-> name, model_fields |-> model_fields]

BasePlugin == ModelClass(<<"q">>, << FieldOf(<<"x", ":", "y">>, "str", "base") >>)
OverridePlugin == ModelClass(<<"X">>, << FieldOf(<<"Y">>, "int", "2") >>)
RivalPlugin == ModelClass(<<"q", ":", "x">>, << FieldOf(<<"y">>, "int", "3") >>)
CasePlugin == ModelClass(<<"W">>, << FieldOf(<<"y">>, "int", "1"),
                                     FieldOf(<<"Y">>, "int", "4") >>)
\* a fragment with a required field and a field with a default factory
NeedyPlugin == ModelClass(<<"n">>, << RequiredField(<<"r">>, "int"),
                                      FactoryField(<<"f">>, "str", "make") >>)
NotAModel == [is_model |-> FALSE, name |-> <<>>, model_fields |-> <<>>]

Models == {BasePlugin, OverridePlugin, RivalPlugin, CasePlugin}
RawPrefixes == {NoPrefix, <<"Q", "/">>, <<"/">>}

_is_pydantic_model(x) == x.is_model

\* the registry object
PSelf == [plugins |-> _plugins, fields |-> _fields, collisions |-> _collisions,
          model |-> _model, dirty |-> _dirty,
          change_listeners |-> _change_listeners]
NoModel == [built |-> FALSE, fields |-> EmptyMap]
PermissionsRegistryInit ==
    [plugins |-> <<>>, fields |-> EmptyMap, collisions |-> EmptyMap,
     model |-> NoModel, dirty |-> FALSE, change_listeners |-> <<>>]

PluginNames(plugins) == {plugins[i].name : i \in DOMAIN plugins}
PluginAt(plugins, plugin_name) == CHOOSE i \in DOMAIN plugins : plugins[i].name = plugin_name

\* a turn in which the entry met first is kept on equal priority
AddFieldFirstWins(acc, model, normalized_prefix, plugin_name, priority, f) ==
    LET transformed == _build_transformed_name(normalized_prefix, model.name, f.name)
        entry == [annotation |-> f.annotation, field_info |-> f.field_info,
                  priority |-> priority, source_plugin |-> plugin_name]
        acc1 == [acc EXCEPT !.record.name_map = Put(@, f.name, transformed)]
    IN IF transformed \notin DOMAIN acc.self.fields
       THEN [acc1 EXCEPT !.self.fields = Put(@, transformed, entry)]
       ELSE IF entry.priority > acc.self.fields[transformed].priority
       THEN [acc1 EXCEPT !.self.fields = Put(@, transformed, entry),
                         !.self.collisions = Put(@, transformed, plugin_name)]
       ELSE [acc1 EXCEPT !.self.collisions =
                Put(@, transformed, acc.self.fields[transformed].source_plugin)]

\* a turn in which the entry met last is taken whatever the priorities
AddFieldLastWins(acc, model, normalized_prefix, plugin_name, priority, f) ==
    LET transformed == _build_transformed_name(normalized_prefix, model.name, f.name)
        entry == [annotation |-> f.annotation, field_info |-> f.field_info,
                  priority |-> priority, source_plugin |-> plugin_name]
        acc1 == [acc EXCEPT !.record.name_map = Put(@, f.name, transformed)]
    IN IF transformed \notin DOMAIN acc.self.fields
       THEN [acc1 EXCEPT !.self.fields = Put(@, transformed, entry)]
       ELSE [acc1 EXCEPT !.self.fields = Put(@, transformed, entry),
                         !.self.collisions = Put(@, transformed, plugin_name)]

\* a turn that records the plugin whose entry lost the name
AddFieldRecordingLoser(acc, model, normalized_prefix, plugin_name, priority, f) ==
    LET transformed == _build_transformed_name(normalized_prefix, model.name, f.name)
        entry == [annotation |-> f.annotation, field_info |-> f.field_info,
                  priority |-> priority, source_plugin |-> plugin_name]
        acc1 == [acc EXCEPT !.record.name_map = Put(@, f.name, transformed)]
    IN IF transformed \notin DOMAIN acc.self.fields
       THEN [acc1 EXCEPT !.self.fields = Put(@, transformed, entry)]
       ELSE IF entry.priority >= acc.self.fields[transformed].priority
       THEN [acc1 EXCEPT !.self.fields = Put(@, transformed, entry),
                         !.self.collisions =
                            Put(@, transformed, acc.self.fields[transformed].source_plugin)]
       ELSE [acc1 EXCEPT !.self.collisions = Put(@, transformed, plugin_name)]

\* one turn of the loop of _add_fields, for the field f of `model`
AddField(acc, model, normalized_prefix, plugin_name, priority, f) ==
    LET transformed == _build_transformed_name(normalized_prefix, model.name, f.name)
        entry == [annotation |-> f.annotation, field_info |-> f.field_info,
                  priority |-> priority, source_plugin |-> plugin_name]
        acc1 == [acc EXCEPT !.record.name_map = Put(@, f.name, transformed)]
    IN IF transformed \notin DOMAIN acc.self.fields
       THEN [acc1 EXCEPT !.self.fields = Put(@, transformed, entry)]
       ELSE LET existing == acc.self.fields[transformed] IN
            IF entry.priority > existing.priority
            THEN [acc1 EXCEPT !.self.fields = Put(@, transformed, entry),
                              !.self.collisions = Put(@, transformed, plugin_name)]
            ELSE IF entry.priority = existing.priority
            THEN [acc1 EXCEPT !.self.fields = Put(@, transformed, entry),
                              !.self.collisions = Put(@, transformed, plugin_name)]
            ELSE [acc1 EXCEPT !.self.collisions =
                                Put(@, transformed, existing.source_plugin)]

RECURSIVE AddFieldsLoop(_, _, _, _, _, _)
AddFieldsLoop(acc, model, normalized_prefix, plugin_name, priority, todo) ==
    IF todo = <<>> THEN acc
    ELSE AddFieldsLoop(AddField(acc, model, normalized_prefix, plugin_name, priority,
                                Head(todo)),
                       model, normalized_prefix, plugin_name, priority, Tail(todo))

\* _add_fields: [self, record] after it
_add_fields(self, model, normalized_prefix, plugin_name, priority, record) ==
    AddFieldsLoop([self |-> self, record |-> record], model, normalized_prefix,
                  plugin_name, priority, model.model_fields)

\* create_model("PermissionModel", **field_definitions)
create_model(field_definitions) == [built |-> TRUE, fields |-> field_definitions]

_rebuild(self) ==
    IF ~self.dirty THEN self
    ELSE IF DOMAIN self.fields = {}
    THEN [self EXCEPT !.model = NoModel, !.dirty = FALSE]
    ELSE [self EXCEPT
            !.model = create_model([n \in DOMAIN self.fields |->
                          [annotation |-> self.fields[n].annotation,
                           field_info |-> self.fields[n].field_info]]),
            !.dirty = FALSE]

\* a registration that adds the fields before it looks for a duplicate
RegisterModelAddingFirst(self, model, prefix, rebuild) ==
    IF ~_is_pydantic_model(model) THEN [self |-> self, raised |-> "TypeError"]
    ELSE LET plugin_name == Lower(model.name)
             normalized_prefix == IF Truthy(prefix) THEN _normalize_prefix(prefix)
                                  ELSE NoPrefix
             priority == IF Truthy(normalized_prefix) THEN 2 ELSE 1
             record == [name |-> plugin_name, model_class |-> model,
                        prefix |-> normalized_prefix, name_map |-> EmptyMap]
             added == _add_fields(self, model, normalized_prefix, plugin_name,
                                  priority, record)
             s1 == [added.self EXCEPT !.plugins = Append(@, added.record),
                                      !.dirty = TRUE]
         IN IF plugin_name \in PluginNames(self.plugins)
            THEN [self |-> added.self, raised |-> "ValueError"]
            ELSE [self |-> IF rebuild THEN _rebuild(s1) ELSE s1, raised |-> None]

\* _register_model: [self, raised]
_register_model(self, model, prefix, rebuild) ==
    IF ~_is_pydantic_model(model) THEN [self |-> self, raised |-> "TypeError"]
    ELSE LET plugin_name == Lower(model.name) IN
    IF plugin_name \in PluginNames(self.plugins)
    THEN [self |-> self, raised |-> "ValueError"]
    ELSE LET normalized_prefix == IF Truthy(prefix) THEN _normalize_prefix(prefix)
                                  ELSE NoPrefix
             priority == IF Truthy(normalized_prefix) THEN 2 ELSE 1
             record == [name |-> plugin_name, model_class |-> model,
                        prefix |-> normalized_prefix, name_map |-> EmptyMap]
             added == _add_fields(self, model, normalized_prefix, plugin_name,
                                  priority, record)
             s1 == [added.self EXCEPT !.plugins = Append(@, added.record),
                                      !.dirty = TRUE]
         IN [self |-> IF rebuild THEN _rebuild(s1) ELSE s1, raised |-> None]

\* the listeners that get added: "l1" returns, "l2" raises an Exception
Listeners == {"l1", "l2"}
ListenerRaises(listener) == listener = "l2"

\* listener(self): what the listener saw of the registry, and how it ended
CallListener(listener, self) ==
    [listener |-> listener, saw |-> [i \in DOMAIN self.plugins |-> self.plugins[i].name],
     raised |-> IF ListenerRaises(listener) THEN "Exception" ELSE None]

\* a broadcast that lets the exception of a listener through
NotifyUncaught(self) ==
    LET n == Len(self.change_listeners)
        failing == {i \in 1..n : ListenerRaises(self.change_listeners[i])}
        last == IF failing = {} THEN n
                ELSE CHOOSE i \in failing : \A j \in failing : i <= j
    IN [calls |-> [i \in 1..last |-> CallListener(self.change_listeners[i], self)],
        raised |-> IF failing = {} THEN None ELSE "Exception"]

\* _notify_change: [calls, raised], the calls made in their order
_notify_change(self) ==
    [calls |-> [i \in 1..Len(self.change_listeners) |->
                    CallListener(self.change_listeners[i], self)],
     raised |-> None]

\* what the public mutators answer: [self, raised, notified]
Rejected(self, raised) == [self |-> self, raised |-> raised, notified |-> <<>>]
Changed(self) ==
    LET n == _notify_change(self)
    IN [self |-> self, raised |-> n.raised, notified |-> n.calls]

register(self, model, prefix) ==
    LET r == _register_model(self, model, prefix, TRUE)
    IN IF r.raised # None THEN Rejected(r.self, r.raised) ELSE Changed(r.self)

\* the loop of register_many: [self, raised, notified] with the calls made so far
RECURSIVE RegisterManyLoop(_, _, _)
RegisterManyLoop(acc, entries, notifying) ==
    IF entries = <<>> \/ acc.raised # None THEN acc
    ELSE LET r == _register_model(acc.self, Head(entries)[1], Head(entries)[2], FALSE)
             n == IF notifying /\ r.raised = None THEN _notify_change(r.self).calls
                  ELSE <<>>
         IN RegisterManyLoop([self |-> r.self, raised |-> r.raised,
                              notified |-> acc.notified \o n],
                             Tail(entries), notifying)

\* a register_many that broadcasts after each entry
RegisterManyNotifyingEach(self, entries) ==
    LET r == RegisterManyLoop(Rejected(self, None), entries, TRUE)
    IN IF r.raised # None THEN r
       ELSE [r EXCEPT !.self = _rebuild([r.self EXCEPT !.dirty = TRUE])]

register_many(self, entries) ==
    LET r == RegisterManyLoop(Rejected(self, None), entries, FALSE)
    IN IF r.raised # None THEN Rejected(r.self, r.raised)
       ELSE Changed(_rebuild([r.self EXCEPT !.dirty = TRUE]))

add_change_listener(self, listener) ==
    [self EXCEPT !.change_listeners = Append(@, listener)]

remove_change_listener(self, listener) ==
    [self EXCEPT !.change_listeners = SelectSeq(@, LAMBDA item : item # listener)]

RECURSIVE RebuildLoop(_, _)
RebuildLoop(self, i) ==
    IF i > Len(self.plugins) THEN self
    ELSE LET record == [self.plugins[i] EXCEPT !.name_map = EmptyMap]
             priority == IF Truthy(record.prefix) THEN 2 ELSE 1
             added == _add_fields(self, record.model_class, record.prefix,
                                  record.name, priority, record)
         IN RebuildLoop([added.self EXCEPT !.plugins[i] = added.record], i + 1)

\* a rebuild that only drops the entries of the plugins that are gone
RebuildDroppingEntries(self) ==
    LET kept == {n \in DOMAIN self.fields :
                    self.fields[n].source_plugin \in PluginNames(self.plugins)}
    IN _rebuild([self EXCEPT
                    !.fields = [n \in kept |-> self.fields[n]],
                    !.collisions = [n \in kept \cap DOMAIN self.collisions |->
                                        self.collisions[n]],
                    !.dirty = TRUE])

_rebuild_from_plugins(self) ==
    _rebuild([RebuildLoop([self EXCEPT !.fields = EmptyMap, !.collisions = EmptyMap], 1)
                EXCEPT !.dirty = TRUE])

\* unregister(model): [self, raised, notified]
unregister(self, model) ==
    IF ~_is_pydantic_model(model) THEN Rejected(self, "TypeError")
    ELSE LET plugin_name == Lower(model.name) IN
    IF plugin_name \notin PluginNames(self.plugins)
    THEN Rejected(self, "KeyError")
    ELSE LET i == PluginAt(self.plugins, plugin_name)
             kept == SubSeq(self.plugins, 1, i - 1)
                     \o SubSeq(self.plugins, i + 1, Len(self.plugins))
         IN Changed(_rebuild_from_plugins([self EXCEPT !.plugins = kept]))

\* schema(): [ret, raised]
schema(self) ==
    IF ~self.model.built THEN [ret |-> NoModel, raised |-> "RuntimeError"]
    ELSE [ret |-> self.model, raised |-> None]

\* the composed model called with keyword arguments: pydantic takes the
\* argument of a field when it is of the field's type, raises when it is not,
\* takes the default of a field that got no argument, ignores other arguments
NoObj == [made |-> FALSE, schema |-> NoModel, data |-> EmptyMap, kwargs |-> EmptyMap]
Construct(model, kwargs) ==
    IF \/ \E n \in DOMAIN kwargs \cap DOMAIN model.fields :
            TypeOf(kwargs[n]) # model.fields[n].annotation
       \/ \E n \in DOMAIN model.fields \ DOMAIN kwargs :
            is_required(model.fields[n].field_info)
    THEN [ret |-> NoObj, raised |-> "ValidationError"]
    ELSE [ret |-> [made |-> TRUE, schema |-> model, kwargs |-> kwargs,
                   data |-> [n \in DOMAIN model.fields |->
                                IF n \in DOMAIN kwargs THEN kwargs[n]
                                ELSE IF HasFactory(model.fields[n].field_info)
                                THEN CallFactory(model.fields[n].field_info.default_factory)
                                ELSE model.fields[n].field_info.default]],
          raised |-> None]

\* instance(**kwargs): [ret, raised]
instance(self, kwargs) ==
    LET m == schema(self) IN
    IF m.raised # None THEN [ret |-> NoObj, raised |-> m.raised]
    ELSE Construct(m.ret, kwargs)

\* an unmap that answers under the composed names
UnmapComposedKeys(self, inst, target_model) ==
    LET plugin_name == Lower(target_model.name) IN
    IF plugin_name \notin PluginNames(self.plugins)
    THEN [ret |-> EmptyMap, raised |-> "KeyError"]
    ELSE LET record == self.plugins[PluginAt(self.plugins, plugin_name)]
             found == {record.name_map[o] : o \in DOMAIN record.name_map}
                        \cap DOMAIN inst.data
         IN [ret |-> [t \in found |-> inst.data[t]], raised |-> None]

\* unmap(instance, target_model): [ret, raised]
unmap(self, inst, target_model) ==
    IF ~_is_pydantic_model(target_model) THEN [ret |-> EmptyMap, raised |-> "TypeError"]
    ELSE LET plugin_name == Lower(target_model.name) IN
    IF plugin_name \notin PluginNames(self.plugins)
    THEN [ret |-> EmptyMap, raised |-> "KeyError"]
    ELSE LET record == self.plugins[PluginAt(self.plugins, plugin_name)]
             instance_data == inst.data
             found == {o \in DOMAIN record.name_map :
                            record.name_map[o] \in DOMAIN instance_data}
         IN [ret |-> [o \in found |-> instance_data[record.name_map[o]]],
             raised |-> None]

\* fields(): transformed name -> (type, default, priority, source)
fields(self) ==
    [n \in DOMAIN self.fields |->
        <<self.fields[n].annotation, self.fields[n].field_info.default,
          self.fields[n].priority, self.fields[n].source_plugin>>]

\* a default_permissions that hands out what FieldInfo.default holds
DefaultsAsStored(self) ==
    [n \in DOMAIN self.fields |-> self.fields[n].field_info.default]

default_permissions(self) ==
    [n \in DOMAIN self.fields |->
        LET field_info == self.fields[n].field_info IN
        IF is_required(field_info) THEN None
        ELSE IF HasFactory(field_info) THEN CallFactory(field_info.default_factory)
        ELSE IF field_info.default = PydanticUndefined THEN None
        ELSE field_info.default]

collisions(self) == DOMAIN self.collisions
plugins(self) == [i \in DOMAIN self.plugins |-> self.plugins[i].name]

----------------------------------------------------------------------------
(* The roles of core.users: the service functions over the roles table `db` *)
(* and the registry `self`, and the role routes of core.api.v1.users        *)

\* dict.update
Update(d, updates) ==
    [k \in DOMAIN d \cup DOMAIN updates |->
        IF k \in DOMAIN updates THEN updates[k] ELSE d[k]]

\* a merge in which the defaults overwrite what the role holds
MergeDefaultsWin(current, defaults) == Update(current, defaults)

_merge_permissions(current, defaults) ==
    [k \in DOMAIN current \cup DOMAIN defaults |->
        IF k \in DOMAIN current THEN current[k] ELSE defaults[k]]

\* sync_role_permissions: the table after it
sync_role_permissions(self, db) ==
    [r \in DOMAIN db |-> _merge_permissions(db[r], default_permissions(self))]

\* sync_role_permissions: the number of roles it updated, which it returns
SyncUpdated(self, db) ==
    Cardinality({r \in DOMAIN db :
                    _merge_permissions(db[r], default_permissions(self)) # db[r]})

create_role(self, db, name, permissions) ==
    Put(db, name, _merge_permissions(permissions, default_permissions(self)))

update_role_permissions(self, db, name, updates) ==
    Put(db, name, Update(_merge_permissions(db[name], default_permissions(self)), updates))

build_permissions_with_patch(self, current, updates) ==
    Update(_merge_permissions(current, default_permissions(self)), updates)

\* validate_permissions_payload: [ret, raised]
validate_permissions_payload(self, payload) ==
    LET model == schema(self) IN
    IF model.raised = "RuntimeError" THEN [ret |-> payload, raised |-> None]
    ELSE LET made == Construct(model.ret, payload)
         IN [ret |-> made.ret.data, raised |-> made.raised]

\* validate_permission_keys: the keys that raise the HTTPException
UnknownKeys(self, payload_permissions) ==
    DOMAIN payload_permissions \ DOMAIN fields(self)

\* a PATCH that brings the roles up to date before it looks at the keys
PatchSyncingFirst(self, db, name, payload) ==
    IF name \notin DOMAIN db
    THEN [db |-> db, status |-> 404, ret |-> EmptyMap]
    ELSE LET synced == sync_role_permissions(self, db) IN
         IF UnknownKeys(self, payload) # {}
         THEN [db |-> synced, status |-> 400, ret |-> EmptyMap]
         ELSE LET merged == build_permissions_with_patch(self, synced[name], payload)
                  validated == validate_permissions_payload(self, merged)
              IN IF validated.raised # None
                 THEN [db |-> synced, status |-> 500, ret |-> EmptyMap]
                 ELSE LET saved == update_role_permissions(self, synced, name,
                                                           validated.ret)
                      IN [db |-> saved, status |-> 200, ret |-> saved[name]]

\* PATCH /roles/{name}/permissions: [db, status, ret]
patch_role_permissions(self, db, name, payload) ==
    IF name \notin DOMAIN db
    THEN [db |-> db, status |-> 404, ret |-> EmptyMap]
    ELSE IF UnknownKeys(self, payload) # {}
    THEN [db |-> db, status |-> 400, ret |-> EmptyMap]
    ELSE LET synced == sync_role_permissions(self, db)
             merged == build_permissions_with_patch(self, synced[name], payload)
             validated == validate_permissions_payload(self, merged)
         IN IF validated.raised # None
            THEN [db |-> synced, status |-> 500, ret |-> EmptyMap]
            ELSE LET saved == update_role_permissions(self, synced, name, validated.ret)
                 IN [db |-> saved, status |-> 200, ret |-> saved[name]]

\* POST /roles: [db, status]
create_role_api(self, db, name, permissions) ==
    IF name \in DOMAIN db THEN [db |-> db, status |-> 409]
    ELSE [db |-> create_role(self, db, name, permissions), status |-> 200]

\* GET /roles/{name}/permissions: [db, status, ret]
get_role_permissions(self, db, name) ==
    IF name \notin DOMAIN db
    THEN [db |-> db, status |-> 404, ret |-> EmptyMap]
    ELSE LET synced == sync_role_permissions(self, db)
         IN [db |-> synced, status |-> 200, ret |-> synced[name]]

----------------------------------------------------------------------------
(* The machine: one PluginRegistry on one FastAPI application, its calls,   *)
(* and the edits made from outside between two calls                        *)

StateMaps == UNION {[D -> JsonValues] : D \in SUBSET Plugins}
StateFiles ==
    {NoFile} \cup
    {[exists |-> TRUE, ok |-> ok, data |-> IF ok THEN data ELSE EmptyMap, mtime |-> m] :
        data \in StateMaps, ok \in BOOLEAN, m \in Mtimes}

\* PluginRegistry.__init__ on the state file `file`, at time m: [self, file]
PluginRegistryInit(file, m) ==
    LET self == [state |-> _load_state(file), state_mtime |-> _state_file_mtime(file),
                 module_mtimes |-> EmptyMap, records |-> EmptyMap]
    IN IF ~file.exists
       THEN [self |-> _save_state(self, m), file |-> SavedFile(self, m)]
       ELSE [self |-> self, file |-> file]

PermInit ==
    /\ _plugins = PermissionsRegistryInit.plugins
    /\ _fields = PermissionsRegistryInit.fields
    /\ _collisions = PermissionsRegistryInit.collisions
    /\ _model = PermissionsRegistryInit.model
    /\ _dirty = PermissionsRegistryInit.dirty
    /\ _change_listeners = PermissionsRegistryInit.change_listeners
    /\ obj = NoObj
    /\ roles = EmptyMap
    /\ locks = NoLocks
    /\ threads = NoCalls
    /\ app_state = NoAppState
    /\ clients = <<>>
    /\ tasks = NoTasks

InitWith(files, times) ==
    /\ PermInit
    /\ fs = [p \in Plugins |-> NoDir]
    /\ \E file \in files, m \in times :
        \E r \in {PluginRegistryInit(file, m)} :
            /\ state_file = r.file
            /\ _state = r.self.state
            /\ _state_mtime = r.self.state_mtime
            /\ _module_mtimes = r.self.module_mtimes
            /\ _records = r.self.records
    /\ edits = 0
    /\ sys_modules = EmptyMap
    /\ routes = <<>>
    /\ registered_plugins = EmptyMap
    /\ openapi_schema = NoDescription
    /\ unseen = FALSE
    /\ out = [op |-> "init"]
    /\ tmp = NoFile
    /\ writer = NoWriter

SetSelf(self) ==
    /\ UNCHANGED <<permVars, userVars, httpVars, ioVars, lockVars>>
    /\ _state' = self.state
    /\ _state_mtime' = self.state_mtime
    /\ _module_mtimes' = self.module_mtimes
    /\ _records' = self.records

\* whether _refresh_state_from_disk reads the file again
Reloads(self, file) ==
    /\ file.exists
    /\ self.state_mtime = NoMtime \/ _state_file_mtime(file) # self.state_mtime

\* a call ended: the file was read again or written (seen), or left alone
Seen(seen) == unseen' = (unseen /\ ~seen /\ ~Reloads(Self, state_file))

Edited ==
    /\ UNCHANGED <<permVars, userVars, httpVars, ioVars, lockVars>>
    /\ edits < MaxEdits
    /\ edits' = edits + 1
    /\ out' = [op |-> "edit"]

\* outside: app.py of plugin p is (re)written, its directory made if needed
WritePlugin(p, src, m) ==
    /\ Edited
    /\ fs[p] # AppDir(src, m)
    /\ fs' = [fs EXCEPT ![p] = AppDir(src, m)]
    /\ UNCHANGED <<state_file, _state, _state_mtime, _module_mtimes, _records,
                   sys_modules, routes, registered_plugins, openapi_schema, unseen>>

\* outside: app.py of plugin p is deleted, its directory stays
RemoveApp(p) ==
    /\ Edited
    /\ fs[p].app
    /\ fs' = [fs EXCEPT ![p] = EmptyDir]
    /\ UNCHANGED <<state_file, _state, _state_mtime, _module_mtimes, _records,
                   sys_modules, routes, registered_plugins, openapi_schema, unseen>>

\* outside: the directory of plugin p is deleted
RemoveDir(p) ==
    /\ Edited
    /\ fs[p].dir
    /\ fs' = [fs EXCEPT ![p] = NoDir]
    /\ UNCHANGED <<state_file, _state, _state_mtime, _module_mtimes, _records,
                   sys_modules, routes, registered_plugins, openapi_schema, unseen>>

\* outside: the state file is rewritten, with a JSON object or with other text
EditStateFile(file) ==
    /\ Edited
    /\ file.exists
    /\ file # state_file
    /\ state_file' = file
    /\ unseen' = IF file.mtime = _state_mtime
                 THEN unseen \/ _load_state(file) # _state
                 ELSE FALSE
    /\ UNCHANGED <<fs, _state, _state_mtime, _module_mtimes, _records,
                   sys_modules, routes, registered_plugins, openapi_schema>>

\* outside: the state file is deleted
DeleteStateFile ==
    /\ Edited
    /\ state_file.exists
    /\ state_file' = NoFile
    /\ unseen' = FALSE
    /\ UNCHANGED <<fs, _state, _state_mtime, _module_mtimes, _records,
                   sys_modules, routes, registered_plugins, openapi_schema>>

LoadPlugins(m) ==
    \E r \in {load_plugins(Self, state_file, fs, sys_modules, routes, m)} :
        /\ SetSelf(r.self)
        /\ state_file' = r.file
        /\ sys_modules' = r.mods
        /\ Seen(r.file # state_file)
        /\ out' = [op |-> "load_plugins", executed |-> r.executed, ret |-> r.ret,
                   updated |-> r.updated]
        /\ UNCHANGED <<fs, edits, routes, registered_plugins, openapi_schema>>

IncludePlugins(m) ==
    \E r \in {include_plugins(Self, state_file, fs, sys_modules, routes,
                              registered_plugins, openapi_schema, m)} :
        /\ SetSelf(r.self)
        /\ state_file' = r.file
        /\ sys_modules' = r.mods
        /\ routes' = r.routes
        /\ registered_plugins' = r.registered
        /\ openapi_schema' = r.openapi_schema
        /\ Seen(r.file # state_file)
        /\ out' = [op |-> "include_plugins", executed |-> r.executed, ret |-> r.ret,
                   updated |-> r.updated, stale |-> r.stale, routes_changed |-> r.routes_changed]
        /\ UNCHANGED <<fs, edits>>

Enable(name, m) ==
    \E r \in {enable(Self, state_file, name, m)} :
        /\ SetSelf(r.self)
        /\ state_file' = r.file
        /\ Seen(TRUE)
        /\ out' = [op |-> "enable", name |-> name]
        /\ UNCHANGED <<fs, edits, sys_modules, routes, registered_plugins, openapi_schema>>

Disable(name, m) ==
    \E r \in {disable(Self, state_file, name, m)} :
        /\ SetSelf(r.self)
        /\ state_file' = r.file
        /\ Seen(TRUE)
        /\ out' = [op |-> "disable", name |-> name]
        /\ UNCHANGED <<fs, edits, sys_modules, routes, registered_plugins, openapi_schema>>

IsEnabled(name) ==
    \E r \in {is_enabled(Self, state_file, name)} :
        /\ SetSelf(r.self)
        /\ Seen(FALSE)
        /\ out' = [op |-> "is_enabled", name |-> name, ret |-> r.ret,
                   reloaded |-> Reloads(Self, state_file)]
        /\ UNCHANGED <<fs, state_file, edits, sys_modules, routes, registered_plugins,
                       openapi_schema>>

List ==
    \E r \in {list(Self, state_file)} :
        /\ SetSelf(r.self)
        /\ Seen(FALSE)
        /\ out' = [op |-> "list", ret |-> r.ret, reloaded |-> Reloads(Self, state_file)]
        /\ UNCHANGED <<fs, state_file, edits, sys_modules, routes, registered_plugins,
                       openapi_schema>>

GetRecord(name) ==
    \E r \in {get(Self, state_file, name)} :
        /\ SetSelf(r.self)
        /\ Seen(FALSE)
        /\ out' = [op |-> "get", name |-> name, found |-> r.found, ret |-> r.ret,
                   reloaded |-> Reloads(Self, state_file)]
        /\ UNCHANGED <<fs, state_file, edits, sys_modules, routes, registered_plugins,
                       openapi_schema>>

Leaves == {"ping", "pong"}

\* the call made just before this one was enable(name)
JustEnabled(name) == out.op = "enable" /\ out.name = name

\* a client GETs /plugins/<p>/<leaf>
Request(p, leaf) ==
    \E r \in {HandleRequest(Self, state_file, routes, <<"plugins", p, leaf>>)} :
        /\ SetSelf(r.self)
        /\ Seen(FALSE)
        /\ out' = [op |-> "request", name |-> p, leaf |-> leaf, status |-> r.status,
                   endpoint |-> r.endpoint, after_enable |-> JustEnabled(p)]
        /\ UNCHANGED <<fs, state_file, edits, sys_modules, routes, registered_plugins,
                       openapi_schema>>

(* SpecLoader: a fresh installation; the plugin tree is edited from outside, *)
(* the loader and the binder run                                            *)

InitLoader == InitWith({NoFile}, Mtimes)

NextLoader ==
    \/ \E p \in Plugins, src \in Sources, m \in Mtimes : WritePlugin(p, src, m)
    \/ \E p \in Plugins : RemoveApp(p)
    \/ \E p \in Plugins : RemoveDir(p)
    \/ \E m \in Mtimes : LoadPlugins(m)
    \/ \E m \in Mtimes : IncludePlugins(m)

SpecLoader == InitLoader /\ [][NextLoader]_vars

(* SpecStore: any state file to start with; plugins come and go, the state  *)
(* file is edited from outside, every operation of the store runs and       *)
(* clients send requests                                                    *)

InitStore == InitWith(StateFiles, Mtimes)

NextStore ==
    \/ \E p \in Plugins : WritePlugin(p, "v2", 1)
    \/ \E p \in Plugins : RemoveDir(p)
    \/ \E file \in StateFiles : EditStateFile(file)
    \/ DeleteStateFile
    \/ \E m \in Mtimes : LoadPlugins(m)
    \/ \E m \in Mtimes : IncludePlugins(m)
    \/ \E p \in Plugins, m \in Mtimes : Enable(p, m)
    \/ \E p \in Plugins, m \in Mtimes : Disable(p, m)
    \/ \E p \in Plugins : IsEnabled(p)
    \/ List
    \/ \E p \in Plugins : GetRecord(p)
    \/ \E p \in Plugins, leaf \in Leaves : Request(p, leaf)

SpecStore == InitStore /\ [][NextStore]_vars

(* SpecPerm: one PermissionsRegistry; fragments are registered with and     *)
(* without prefix and unregistered, in any order, and the registry is read  *)

SetPSelf(self) ==
    /\ _plugins' = self.plugins
    /\ _fields' = self.fields
    /\ _collisions' = self.collisions
    /\ _model' = self.model
    /\ _dirty' = self.dirty
    /\ _change_listeners' = self.change_listeners
    /\ UNCHANGED <<loaderState, userVars, httpVars, ioVars, lockVars>>

PRead == UNCHANGED <<loaderState, userVars, httpVars, ioVars, lockVars, _plugins, _fields, _collisions, _model, _dirty,
                     _change_listeners>>

\* a successful register or unregister ends the use of the instance made
\* before it: the callers unmap instances of the schema as it is composed now
Register(model, prefix) ==
    /\ Len(_plugins) < MaxRegistered
    /\ \E r \in {register(PSelf, model, prefix)} :
        /\ SetPSelf(r.self)
        /\ out' = [op |-> "register", model |-> model, prefix |-> prefix,
                   raised |-> r.raised, notified |-> r.notified]
        /\ obj' = IF r.raised = None THEN NoObj ELSE obj

Unregister(model) ==
    \E r \in {unregister(PSelf, model)} :
        /\ SetPSelf(r.self)
        /\ out' = [op |-> "unregister", model |-> model, raised |-> r.raised,
                   notified |-> r.notified,
                   evicting |-> {n \in DOMAIN _collisions :
                                    _fields[n].source_plugin = Lower(model.name)}]
        /\ obj' = IF r.raised = None THEN NoObj ELSE obj

Schema ==
    \E r \in {schema(PSelf)} :
        /\ out' = [op |-> "schema", ret |-> r.ret, raised |-> r.raised]
        /\ PRead /\ UNCHANGED obj

\* the keyword arguments the callers pass: none, or one composed name
ComposedNames == {<<"q", ":", "x", ":", "y">>, <<"w", ":", "y">>, <<"x", ":", "y">>}
Kwargs == {EmptyMap} \cup {[x \in {n} |-> v] : n \in ComposedNames, v \in {"9", "nine"}}

Instance(kwargs) ==
    \E r \in {instance(PSelf, kwargs)} :
        /\ obj' = IF r.raised = None THEN r.ret ELSE obj
        /\ out' = [op |-> "instance", kwargs |-> kwargs, raised |-> r.raised]
        /\ PRead

Unmap(target_model) ==
    /\ obj.made
    /\ \E r \in {unmap(PSelf, obj, target_model)} :
        /\ out' = [op |-> "unmap", model |-> target_model, ret |-> r.ret,
                   raised |-> r.raised]
        /\ PRead /\ UNCHANGED obj

Fields ==
    /\ out' = [op |-> "fields", ret |-> fields(PSelf)]
    /\ PRead /\ UNCHANGED obj

DefaultPermissions ==
    /\ out' = [op |-> "default_permissions", ret |-> default_permissions(PSelf)]
    /\ PRead /\ UNCHANGED obj

Collisions ==
    /\ out' = [op |-> "collisions", ret |-> collisions(PSelf)]
    /\ PRead /\ UNCHANGED obj

ListPlugins ==
    /\ out' = [op |-> "plugins", ret |-> plugins(PSelf)]
    /\ PRead /\ UNCHANGED obj

InitPerm == InitWith({NoFile}, {1})

NextPerm ==
    \/ \E model \in Models, prefix \in RawPrefixes : Register(model, prefix)
    \/ Register(NotAModel, NoPrefix)
    \/ \E model \in Models : Unregister(model)
    \/ Schema
    \/ \E kwargs \in Kwargs : Instance(kwargs)
    \/ \E model \in Models : Unmap(model)
    \/ Fields
    \/ DefaultPermissions
    \/ Collisions
    \/ ListPlugins

SpecPerm == InitPerm /\ [][NextPerm]_vars

\* The store with _save_state taken step by step, and a reader of the state
\* file that comes at any moment; the registry's lock keeps its own calls
\* apart, so one call at a time is inside _save_state
Idle == writer.pc = "idle"

Begin(op, r) ==
    /\ Idle
    /\ writer' = [pc |-> "open", op |-> op, self |-> r.self, file |-> r.file,
                  mods |-> r.mods, prev |-> state_file]
    /\ UNCHANGED <<loaderVars, permVars, userVars, httpVars, lockVars, tmp>>

BeginEnable(name, m) ==
    \E r \in {enable(Self, state_file, name, m)} :
        Begin("enable", [self |-> r.self, file |-> r.file, mods |-> sys_modules])

BeginDisable(name, m) ==
    \E r \in {disable(Self, state_file, name, m)} :
        Begin("disable", [self |-> r.self, file |-> r.file, mods |-> sys_modules])

\* a load pass that has to save; one that has not is LoadPlugins as a whole
BeginLoad(m) ==
    \E r \in {load_plugins(Self, state_file, fs, sys_modules, routes, m)} :
        /\ r.updated
        /\ Begin("load_plugins", [self |-> r.self, file |-> r.file, mods |-> r.mods])

LoadWithoutSave(m) ==
    /\ Idle
    /\ ~load_plugins(Self, state_file, fs, sys_modules, routes, m).updated
    /\ LoadPlugins(m)

SetFiles(files) ==
    /\ state_file' = files.target
    /\ tmp' = files.tmp

\* tmp.write_text: the file is created or emptied ...
OpenTmp ==
    /\ writer.pc = "open"
    /\ SetFiles(WriteText(Files, SavePath, Opened(writer.file.mtime)))
    /\ writer' = [writer EXCEPT !.pc = "write"]
    /\ UNCHANGED <<fs, edits, _state, _state_mtime, _module_mtimes, _records,
                   sys_modules, routes, registered_plugins, openapi_schema, unseen,
                   out, permVars, userVars, httpVars, lockVars>>

\* ... and filled
WriteTmp ==
    /\ writer.pc = "write"
    /\ SetFiles(WriteText(Files, SavePath, writer.file))
    /\ writer' = [writer EXCEPT !.pc = "replace"]
    /\ UNCHANGED <<fs, edits, _state, _state_mtime, _module_mtimes, _records,
                   sys_modules, routes, registered_plugins, openapi_schema, unseen,
                   out, permVars, userVars, httpVars, lockVars>>

\* tmp.replace(self.state_file), and the rest of the call
ReplaceTmp ==
    /\ writer.pc = "replace"
    /\ SetFiles(ReplaceFile(Files, SavePath))
    /\ _state' = writer.self.state
    /\ _state_mtime' = _state_file_mtime(state_file')
    /\ _module_mtimes' = writer.self.module_mtimes
    /\ _records' = writer.self.records
    /\ sys_modules' = writer.mods
    /\ writer' = NoWriter
    /\ out' = [op |-> writer.op]
    /\ UNCHANGED <<fs, edits, routes, registered_plugins, openapi_schema, unseen,
                   permVars, userVars, httpVars, lockVars>>

\* another process or thread opens the state file and reads it
ReadStateFile ==
    /\ out' = [op |-> "read", seen |-> state_file, during |-> writer.pc,
               previous |-> IF Idle THEN state_file ELSE writer.prev,
               new |-> IF Idle THEN state_file ELSE writer.file]
    /\ UNCHANGED <<loaderState, permVars, userVars, httpVars, ioVars, lockVars>>

InitAtomic == InitWith({NoFile}, Mtimes)

NextAtomic ==
    \/ \E name \in Plugins, m \in Mtimes : BeginEnable(name, m)
    \/ \E name \in Plugins, m \in Mtimes : BeginDisable(name, m)
    \/ \E m \in Mtimes : BeginLoad(m)
    \/ \E m \in Mtimes : LoadWithoutSave(m)
    \/ OpenTmp
    \/ WriteTmp
    \/ ReplaceTmp
    \/ ReadStateFile
    \/ WritePlugin("a", "v1", 1)

SpecAtomic == InitAtomic /\ [][NextAtomic]_vars


\* The registry with its listeners, batches, and a load pass of the loader
MaxListeners == 2
Entries == (Models \cup {NotAModel}) \X {NoPrefix, <<"Q", "/">>}
Batches == {<<>>} \cup {<<x>> : x \in Entries} \cup {<<x, y>> : x, y \in Entries}

RegisterMany(entries) ==
    /\ Len(_plugins) + Len(entries) <= MaxRegistered
    /\ \E r \in {register_many(PSelf, entries)} :
        /\ SetPSelf(r.self)
        /\ out' = [op |-> "register_many", entries |-> Len(entries),
                   raised |-> r.raised, notified |-> r.notified]
        /\ obj' = NoObj

AddChangeListener(listener) ==
    /\ Len(_change_listeners) < MaxListeners
    /\ SetPSelf(add_change_listener(PSelf, listener))
    /\ out' = [op |-> "add_change_listener", listener |-> listener]
    /\ UNCHANGED obj

RemoveChangeListener(listener) ==
    /\ SetPSelf(remove_change_listener(PSelf, listener))
    /\ out' = [op |-> "remove_change_listener", listener |-> listener]
    /\ UNCHANGED obj

InitNotify == InitWith({NoFile}, {1})

NextNotify ==
    \/ \E model \in Models, prefix \in RawPrefixes : Register(model, prefix)
    \/ Register(NotAModel, NoPrefix)
    \/ \E entries \in Batches : RegisterMany(entries)
    \/ \E model \in Models : Unregister(model)
    \/ \E listener \in Listeners : AddChangeListener(listener)
    \/ \E listener \in Listeners : RemoveChangeListener(listener)
    \/ Schema
    \/ Instance(EmptyMap)
    \/ \E model \in Models : Unmap(model)
    \/ Fields
    \/ DefaultPermissions
    \/ Collisions
    \/ ListPlugins
    \/ WritePlugin("a", "v1", 1)
    \/ LoadPlugins(1)

SpecNotify == InitNotify /\ [][NextNotify]_vars


\* The role routes, called while fragments come and go
RoleNames == {"admin"}
PayloadKeys == {<<"q", ":", "x", ":", "y">>, <<"w", ":", "y">>}
Payloads == UNION {[D -> {"9", "nine"}] : D \in SUBSET PayloadKeys}

\* the fragments whose fields the roles carry
RoleFragments == {BasePlugin, OverridePlugin, CasePlugin, NeedyPlugin}

URead == UNCHANGED <<loaderState, permVars, ioVars, lockVars, httpVars>>

CreateRole(name, permissions) ==
    /\ \E r \in {create_role_api(PSelf, roles, name, permissions)} :
        /\ roles' = r.db
        /\ out' = [op |-> "create_role", name |-> name, permissions |-> permissions,
                   status |-> r.status]
    /\ URead

\* GET /roles: list_roles runs the sync and returns the roles
ListRoles ==
    /\ roles' = sync_role_permissions(PSelf, roles)
    /\ out' = [op |-> "list_roles", updated |-> SyncUpdated(PSelf, roles),
               before |-> roles]
    /\ URead

PatchRolePermissions(name, payload) ==
    /\ \E r \in {patch_role_permissions(PSelf, roles, name, payload)} :
        /\ roles' = r.db
        /\ out' = [op |-> "patch_role_permissions", name |-> name,
                   payload |-> payload, status |-> r.status, ret |-> r.ret]
    /\ URead

GetRolePermissions(name) ==
    /\ \E r \in {get_role_permissions(PSelf, roles, name)} :
        /\ roles' = r.db
        /\ out' = [op |-> "get_role_permissions", name |-> name,
                   status |-> r.status, ret |-> r.ret]
    /\ URead

InitRoles == InitWith({NoFile}, {1})

NextRoles ==
    \/ \E model \in RoleFragments : Register(model, NoPrefix)
    \/ \E model \in RoleFragments : Unregister(model)
    \/ \E name \in RoleNames, permissions \in Payloads : CreateRole(name, permissions)
    \/ ListRoles
    \/ \E name \in RoleNames, payload \in Payloads : PatchRolePermissions(name, payload)
    \/ \E name \in RoleNames : GetRolePermissions(name)
    \/ DefaultPermissions
    \/ Fields

SpecRoles == InitRoles /\ [][NextRoles]_vars



----------------------------------------------------------------------------
(* The interface description of the application: custom_openapi, installed  *)
(* by _install_openapi_filter, and _inject_permissions_schema               *)

\* PATCH /api/roles/{name}/permissions, a route of the application itself
PermissionsPath == <<"api", "roles", "{name}", "permissions">>
CoreRoutes ==
    << [path |-> PermissionsPath, tags |-> {<<"Roles">>}, guard |-> None,
        endpoint |-> <<"core", 0>>, src |-> None] >>

\* the tags of a route that start with "plugin:"
plugin_tags(route) == {tag \in route.tags : tag[1] = "plugin"}

\* a filter that asks the map in memory instead of registry.is_enabled
FilterFromMemory(self, file, table, kept) ==
    [self |-> self,
     routes |-> SelectSeq(table, LAMBDA route :
                    \A tag \in plugin_tags(route) : StateGet(self.state, tag[2]))]

\* the loop of custom_openapi over app.routes: [self, routes]
RECURSIVE FilterRoutes(_, _, _, _)
FilterRoutes(self, file, table, kept) ==
    IF table = <<>> THEN [self |-> self, routes |-> kept]
    ELSE LET route == Head(table) IN
         IF plugin_tags(route) # {}
         THEN LET plugin_name == (CHOOSE tag \in plugin_tags(route) : TRUE)[2]
                  asked == is_enabled(self, file, plugin_name)
              IN FilterRoutes(asked.self, file, Tail(table),
                              IF asked.ret THEN Append(kept, route) ELSE kept)
         ELSE FilterRoutes(self, file, Tail(table), Append(kept, route))

\* fastapi's get_openapi(routes=filtered_routes): the paths with their tags,
\* the request body of the operation that takes one, and the schemas those
\* bodies refer to
RequestBodyOf(route) ==
    IF route.path = PermissionsPath THEN "RolePermissionsUpdate" ELSE None
get_openapi(filtered_routes) ==
    LET bodies == {i \in DOMAIN filtered_routes :
                        RequestBodyOf(filtered_routes[i]) # None}
    IN [cached |-> TRUE,
        routes |-> [i \in DOMAIN filtered_routes |->
                        [path |-> filtered_routes[i].path,
                         tags |-> filtered_routes[i].tags]],
        request_body |-> [path \in {filtered_routes[i].path : i \in bodies} |->
                            [ref |-> "RolePermissionsUpdate", required |-> {}]],
        schemas |-> [n \in {RequestBodyOf(filtered_routes[i]) : i \in bodies} |->
                            "generated"]]

\* model.__name__ of the composed model, and model.model_json_schema()
ModelName == "PermissionModel"
model_json_schema(model) ==
    [n \in DOMAIN model.fields |-> model.fields[n].annotation]

_inject_permissions_schema(openapi, pself) ==
    LET model == schema(pself) IN
    IF model.raised # None THEN openapi
    ELSE LET named == [openapi EXCEPT
                        !.schemas = Put(@, ModelName, model_json_schema(model.ret))]
         IN IF PermissionsPath \notin DOMAIN named.request_body THEN named
            ELSE [named EXCEPT !.request_body[PermissionsPath] =
                        [ref |-> ModelName, required |-> {"permissions"}]]

\* app.openapi(): [self, openapi_schema, ret, regenerated]
custom_openapi(self, file, table, cached, pself) ==
    IF cached.cached
    THEN [self |-> self, openapi_schema |-> cached, ret |-> cached,
          regenerated |-> FALSE]
    ELSE LET filtered == FilterRoutes(self, file, table, <<>>)
             made == _inject_permissions_schema(get_openapi(filtered.routes), pself)
         IN [self |-> filtered.self, openapi_schema |-> made, ret |-> made,
             regenerated |-> TRUE]

\* a client GETs /openapi.json
OpenApi ==
    \E r \in {custom_openapi(Self, state_file, routes, openapi_schema, PSelf)} :
        /\ SetSelf(r.self)
        /\ Seen(FALSE)
        /\ openapi_schema' = r.openapi_schema
        /\ out' = [op |-> "openapi", ret |-> r.ret, regenerated |-> r.regenerated]
        /\ UNCHANGED <<fs, state_file, edits, sys_modules, routes, registered_plugins>>

(* SpecDocs: the application with its own route and the routes of plugins   *)
(* that come and go; plugins are switched, the state file is edited from    *)
(* outside, fragments are registered and unregistered, and the interface    *)
(* description is asked for                                                 *)

DocSources == {"v1", "empty"}
DocFragments == {BasePlugin, OverridePlugin}
DocStateFiles ==
    {[exists |-> TRUE, ok |-> TRUE, data |-> [p \in Plugins |-> v], mtime |-> MaxMtime] :
        v \in JsonValues}

InitDocs ==
    /\ PermInit
    /\ fs = [p \in Plugins |-> NoDir]
    /\ \E r \in {PluginRegistryInit(NoFile, 1)} :
        /\ state_file = r.file
        /\ _state = r.self.state
        /\ _state_mtime = r.self.state_mtime
        /\ _module_mtimes = r.self.module_mtimes
        /\ _records = r.self.records
    /\ edits = 0
    /\ sys_modules = EmptyMap
    /\ routes = CoreRoutes
    /\ registered_plugins = EmptyMap
    /\ openapi_schema = NoDescription
    /\ unseen = FALSE
    /\ out = [op |-> "init"]
    /\ tmp = NoFile
    /\ writer = NoWriter

NextDocs ==
    \/ \E p \in Plugins, src \in DocSources : WritePlugin(p, src, 1)
    \/ \E p \in Plugins : RemoveDir(p)
    \/ \E file \in DocStateFiles : EditStateFile(file)
    \/ IncludePlugins(1)
    \/ \E p \in Plugins : Enable(p, 1)
    \/ \E p \in Plugins : Disable(p, 1)
    \/ \E model \in DocFragments : Register(model, NoPrefix)
    \/ \E model \in DocFragments : Unregister(model)
    \/ OpenApi

SpecDocs == InitDocs /\ [][NextDocs]_vars

----------------------------------------------------------------------------
(* The locking of the two registries.  A public operation is the sequence   *)
(* of its lock acquisitions, lock releases and calls; a thread is the stack *)
(* of the calls it is inside                                                *)

Acq(lock) == [do |-> "acquire", lock |-> lock, op |-> None]
Rel(lock) == [do |-> "release", lock |-> lock, op |-> None]
CallOp(op) == [do |-> "call", lock |-> None, op |-> op]

\* a mutator that notifies its listeners inside the `with self._lock` block
MutatorHoldingLock == <<Acq(PermLock), CallOp("_notify_change"), Rel(PermLock)>>

\* register, register_many, unregister: the block under the lock, then
\* self._notify_change()
MutatorProgram == <<Acq(PermLock), Rel(PermLock), CallOp("_notify_change")>>

LoaderOps == {"is_enabled", "enable", "disable", "list", "get"}
MutatorOps == {"register", "register_many", "unregister"}
ReaderOps == {"schema", "fields", "unmap", "default_permissions"}
PublicOps == LoaderOps \cup {"load_plugins"} \cup MutatorOps \cup ReaderOps
                \cup {"instance"}

Program(op) ==
    CASE op \in LoaderOps -> <<Acq(LoaderLock), Rel(LoaderLock)>>
      [] op = "load_plugins" ->
            <<Acq(LoaderLock), CallOp("exec_module"), Rel(LoaderLock)>>
      \* app.py of a plugin registers its fragment when it is imported
      [] op = "exec_module" -> <<CallOp("register")>>
      [] op \in MutatorOps -> MutatorProgram
      [] op = "_notify_change" -> <<CallOp("listener")>>
      \* the listener of init_permissions_sync: sync_role_permissions reads
      \* PERMISSIONS.default_permissions()
      [] op = "listener" -> <<CallOp("default_permissions")>>
      [] op \in ReaderOps -> <<Acq(PermLock), Rel(PermLock)>>
      [] op = "instance" -> <<Acq(PermLock), CallOp("schema"), Rel(PermLock)>>

\* threading.Lock: the holder itself cannot take it again
CanAcquirePlain(lock, t) == lock.owner = NoThread

\* threading.RLock
CanAcquire(lock, t) == lock.owner = NoThread \/ lock.owner = t

Top(t) == threads[t][Len(threads[t])]
AtEnd(t) == Top(t).pc > Len(Program(Top(t).op))
Instr(t) == Program(Top(t).op)[Top(t).pc]
Doing(t, do) == threads[t] # <<>> /\ ~AtEnd(t) /\ Instr(t).do = do
Advanced(t) == [threads[t] EXCEPT ![Len(threads[t])].pc = @ + 1]

LockStep == UNCHANGED <<loaderVars, permVars, userVars, httpVars, ioVars>>

\* a thread calls a public operation
Start(t, op) ==
    /\ threads[t] = <<>>
    /\ threads' = [threads EXCEPT ![t] = <<[op |-> op, pc |-> 1]>>]
    /\ UNCHANGED locks /\ LockStep

Acquire(t) ==
    /\ Doing(t, "acquire")
    /\ CanAcquire(locks[Instr(t).lock], t)
    /\ locks' = [locks EXCEPT ![Instr(t).lock] = [owner |-> t, count |-> @.count + 1]]
    /\ threads' = [threads EXCEPT ![t] = Advanced(t)]
    /\ LockStep

Release(t) ==
    /\ Doing(t, "release")
    /\ locks' = [locks EXCEPT ![Instr(t).lock] =
                    IF @.count = 1 THEN [owner |-> NoThread, count |-> 0]
                    ELSE [owner |-> t, count |-> @.count - 1]]
    /\ threads' = [threads EXCEPT ![t] = Advanced(t)]
    /\ LockStep

Invoke(t) ==
    /\ Doing(t, "call")
    /\ threads' = [threads EXCEPT ![t] = Append(Advanced(t), [op |-> Instr(t).op, pc |-> 1])]
    /\ UNCHANGED locks /\ LockStep

Return(t) ==
    /\ threads[t] # <<>>
    /\ AtEnd(t)
    /\ threads' = [threads EXCEPT ![t] = SubSeq(@, 1, Len(@) - 1)]
    /\ UNCHANGED locks /\ LockStep

(* SpecLocks: the threads call the public operations of both registries in  *)
(* any interleaving                                                         *)

InitLocks == InitWith({NoFile}, {1})

NextLocks ==
    \/ \E t \in Threads, op \in PublicOps : Start(t, op)
    \/ \E t \in Threads : Acquire(t)
    \/ \E t \in Threads : Release(t)
    \/ \E t \in Threads : Invoke(t)
    \/ \E t \in Threads : Return(t)

SpecLocks == InitLocks /\ [][NextLocks]_vars

----------------------------------------------------------------------------
(* The management routes of core/plugin/api/routes.py                       *)

_record_to_plugininfo(record) ==
    [name |-> record.name, enabled |-> record.enabled,
     routers |-> Len(record.routers), error |-> record.error]

\* GET /api/loader/plugins/{name}: [self, file, mods, status, ret]
get_plugin(self, file, files, mods, table, name, m) ==
    LET loaded == load_plugins(self, file, files, mods, table, m)
        got == get(loaded.self, loaded.file, name)
    IN [self |-> got.self, file |-> loaded.file, mods |-> loaded.mods,
        status |-> IF got.found THEN 200 ELSE 404,
        ret |-> IF got.found THEN _record_to_plugininfo(got.ret) ELSE None]

\* a switch that sets the flag before it looks for the record
SwitchSettingFirst(self, file, files, mods, table, registered, cached, name, enabled, m) ==
    LET flagged == SetFlag(self, file, name, enabled, m)
        got == get(flagged.self, flagged.file, name)
    IN [self |-> got.self, file |-> flagged.file, mods |-> mods,
        routes |-> table, registered |-> registered, openapi_schema |-> cached,
        status |-> IF got.found THEN 200 ELSE 404,
        ret |-> IF got.found THEN _record_to_plugininfo(got.ret) ELSE None]

\* routes.py 55-58 and 72-75: the answer of a route that ends by looking the
\* record up
PluginAnswer(got) ==
    [status |-> IF got.found THEN 200 ELSE 404,
     ret |-> IF got.found THEN _record_to_plugininfo(got.ret) ELSE None]

\* routes.py 71-75: after the binding pass the cached description is dropped
\* and the record is looked up again
SwitchBound(bound, name) ==
    LET again == get(bound.self, bound.file, name)
    IN [self |-> again.self, file |-> bound.file, mods |-> bound.mods,
        routes |-> bound.routes, registered |-> bound.registered,
        openapi_schema |-> NoDescription,
        status |-> PluginAnswer(again).status, ret |-> PluginAnswer(again).ret]

\* routes.py 70: include_plugins once the flag is set
SwitchFlagged(flagged, files, mods, table, registered, cached, name, m) ==
    SwitchBound(include_plugins(flagged.self, flagged.file, files, mods,
                                table, registered, cached, m), name)

\* routes.py 64-69: 404 for a name without a record, before any flag is set;
\* otherwise enable or disable
SwitchLoaded(loaded, got, files, table, registered, cached, name, enabled, m) ==
    IF ~got.found
    THEN [self |-> got.self, file |-> loaded.file, mods |-> loaded.mods,
          routes |-> table, registered |-> registered, openapi_schema |-> cached,
          status |-> 404, ret |-> None]
    ELSE SwitchFlagged(SetFlag(got.self, loaded.file, name, enabled, m),
                       files, loaded.mods, table, registered, cached, name, m)

\* routes.py 63: registry.get(name) after the load pass
SwitchGet(loaded, files, table, registered, cached, name, enabled, m) ==
    SwitchLoaded(loaded, get(loaded.self, loaded.file, name),
                 files, table, registered, cached, name, enabled, m)

\* POST /api/loader/plugins/{name}/switch?enabled=...
switch_plugin(self, file, files, mods, table, registered, cached, name, enabled, m) ==
    SwitchGet(load_plugins(self, file, files, mods, table, m),
              files, table, registered, cached, name, enabled, m)

\* what the store answers for every name, asked now
Flags == [q \in Plugins |-> is_enabled(Self, state_file, q).ret]

GetPlugin(name) ==
    \E r \in {get_plugin(Self, state_file, fs, sys_modules, routes, name, 1)} :
        /\ SetSelf(r.self)
        /\ state_file' = r.file
        /\ sys_modules' = r.mods
        /\ Seen(r.file # state_file)
        /\ out' = [op |-> "get_plugin", name |-> name, status |-> r.status, ret |-> r.ret]
        /\ UNCHANGED <<fs, edits, routes, registered_plugins, openapi_schema>>

SwitchPlugin(name, enabled) ==
    \E r \in {switch_plugin(Self, state_file, fs, sys_modules, routes, registered_plugins,
                            openapi_schema, name, enabled, 1)} :
        /\ SetSelf(r.self)
        /\ state_file' = r.file
        /\ sys_modules' = r.mods
        /\ routes' = r.routes
        /\ registered_plugins' = r.registered
        /\ openapi_schema' = r.openapi_schema
        /\ Seen(r.file # state_file)
        /\ out' = [op |-> "switch_plugin", name |-> name, enabled |-> enabled,
                   status |-> r.status, ret |-> r.ret, before |-> Flags]
        /\ UNCHANGED <<fs, edits>>

\* GET /api/loader/plugins: a load pass on its own, then the projections
list_plugins(self, file, files, mods, table, m) ==
    [loaded |-> load_plugins(self, file, files, mods, table, m)]

\* routes.py 82-83: the cached description is dropped, the records of the
\* first load pass are returned
RefreshBound(names, bound) ==
    [self |-> bound.self, file |-> bound.file, mods |-> bound.mods,
     routes |-> bound.routes, registered |-> bound.registered,
     openapi_schema |-> NoDescription, ret |-> names]

\* routes.py 81: include_plugins after the load pass
RefreshLoaded(loaded, files, table, registered, cached, m) ==
    RefreshBound(loaded.ret,
                 include_plugins(loaded.self, loaded.file, files, loaded.mods, table,
                                 registered, cached, m))

\* POST /api/loader/plugins/refresh
refresh_plugins(self, file, files, mods, table, registered, cached, m) ==
    RefreshLoaded(load_plugins(self, file, files, mods, table, m),
                  files, table, registered, cached, m)

ListPluginsApi ==
    \E r \in {list_plugins(Self, state_file, fs, sys_modules, routes, 1).loaded} :
        /\ SetSelf(r.self)
        /\ state_file' = r.file
        /\ sys_modules' = r.mods
        /\ Seen(r.file # state_file)
        /\ out' = [op |-> "list_plugins", status |-> 200,
                   ret |-> [i \in DOMAIN r.ret |->
                              _record_to_plugininfo(r.self.records[r.ret[i]])]]
        /\ UNCHANGED <<fs, edits, routes, registered_plugins, openapi_schema>>

RefreshPlugins ==
    \E r \in {refresh_plugins(Self, state_file, fs, sys_modules, routes,
                              registered_plugins, openapi_schema, 1)} :
        /\ SetSelf(r.self)
        /\ state_file' = r.file
        /\ sys_modules' = r.mods
        /\ routes' = r.routes
        /\ registered_plugins' = r.registered
        /\ openapi_schema' = r.openapi_schema
        /\ Seen(r.file # state_file)
        /\ out' = [op |-> "refresh_plugins", status |-> 200, ret |-> r.ret]
        /\ UNCHANGED <<fs, edits>>

(* SpecManage: plugins come and go and the state file is edited from        *)
(* outside; the management routes are called and clients send requests      *)

InitManage == InitWith({NoFile}, {1})

NextManage ==
    \/ \E p \in Plugins, src \in {"v1", "bad"} : WritePlugin(p, src, 1)
    \/ \E p \in Plugins : RemoveDir(p)
    \/ \E file \in DocStateFiles : EditStateFile(file)
    \/ \E p \in Plugins : GetPlugin(p)
    \/ \E p \in Plugins, enabled \in BOOLEAN : SwitchPlugin(p, enabled)
    \/ ListPluginsApi
    \/ RefreshPlugins
    \/ \E p \in Plugins, leaf \in Leaves : Request(p, leaf)

SpecManage == InitManage /\ [][NextManage]_vars

----------------------------------------------------------------------------
(* The calls of the PluginRegistry step by step.  A thread that is inside a *)
(* call holds one frame: the call, its arguments, the step it is about to   *)
(* take, and its local variables.  Every step reads and writes the registry *)
(* and the files as they are at that moment                                 *)

StoreCalls == {"enable", "disable", "is_enabled", "load_plugins"}

\* load_plugins, loader.py 157-252, statement by statement
LoadSteps ==
    <<"acquire", "_refresh_state_from_disk", "iterdir", "exec_module",
      "_sync_plugin_states", "dumps", "write_text", "replace", "_state_file_mtime",
      "release">>

\* the statements of a call, `with self._lock` first and last
StepsOf(op) ==
    CASE op \in {"enable", "disable"} ->
            <<"acquire", "_refresh_state_from_disk", "set", "dumps", "write_text",
              "replace", "_state_file_mtime", "record", "release">>
      [] op = "is_enabled" -> <<"acquire", "_refresh_state_from_disk", "get", "release">>
      [] op = "load_plugins" -> LoadSteps

RECURSIVE IndexOf(_, _)
IndexOf(s, x) == IF Head(s) = x THEN 1 ELSE 1 + IndexOf(Tail(s), x)

Frame(t) == threads[t][1]
At(t, step) == threads[t] # <<>> /\ StepsOf(Frame(t).op)[Frame(t).pc] = step
\* the thread is past `with self._lock`
Running(t) == threads[t] # <<>> /\ Frame(t).pc > 1
Quiet == \A t \in Threads : ~Running(t)

\* what the call does when nothing else runs, from the state it finds
Sequential(op, name, m) ==
    CASE op = "enable" ->
            [self |-> enable(Self, state_file, name, m).self,
             file |-> enable(Self, state_file, name, m).file,
             mods |-> sys_modules, ret |-> None]
      [] op = "disable" ->
            [self |-> disable(Self, state_file, name, m).self,
             file |-> disable(Self, state_file, name, m).file,
             mods |-> sys_modules, ret |-> None]
      [] op = "is_enabled" ->
            [self |-> is_enabled(Self, state_file, name).self, file |-> state_file,
             mods |-> sys_modules, ret |-> is_enabled(Self, state_file, name).ret]
      [] op = "load_plugins" ->
            [self |-> load_plugins(Self, state_file, fs, sys_modules, routes, m).self,
             file |-> load_plugins(Self, state_file, fs, sys_modules, routes, m).file,
             mods |-> load_plugins(Self, state_file, fs, sys_modules, routes, m).mods,
             ret |-> load_plugins(Self, state_file, fs, sys_modules, routes, m).ret]

Goto(t, step) ==
    threads' = [threads EXCEPT ![t][1].pc = IndexOf(StepsOf(Frame(t).op), step)]
Forward(t) == threads' = [threads EXCEPT ![t][1].pc = @ + 1]
ForwardWith(t, frame) == threads' = [threads EXCEPT ![t][1] = [frame EXCEPT !.pc = @ + 1]]

\* what a step of a call leaves alone besides the registry and the files
StepFrame == UNCHANGED <<fs, edits, routes, registered_plugins, openapi_schema, unseen,
                         out, permVars, userVars, httpVars, writer>>

\* a thread calls op(name); a file the call writes gets the fingerprint m
Call(t, op, name, m) ==
    /\ threads[t] = <<>>
    /\ threads' = [threads EXCEPT ![t] =
            <<[op |-> op, name |-> name, m |-> m, pc |-> 1, payload |-> NoFile,
               dirs |-> <<>>, ret |-> None, raised |-> FALSE, expect |-> None]>>]
    /\ UNCHANGED <<loaderVars, permVars, userVars, httpVars, ioVars, locks>>

\* a lock that lets every thread in
CanEnterAlways(t) == TRUE

\* a guard that does not wait for the lock
MayEnterReading(t) == Frame(t).op = "is_enabled" \/ CanAcquire(locks[LoaderLock], t)

\* the lock of the registry is free for the thread
MayEnter(t) == CanAcquire(locks[LoaderLock], t)

\* with self._lock:
Enter(t) ==
    /\ At(t, "acquire")
    /\ MayEnter(t)
    /\ locks' = [locks EXCEPT ![LoaderLock] = [owner |-> t, count |-> @.count + 1]]
    /\ ForwardWith(t, [Frame(t) EXCEPT
                         !.expect = Sequential(Frame(t).op, Frame(t).name, Frame(t).m)])
    /\ UNCHANGED <<loaderVars, permVars, userVars, httpVars, ioVars>>

\* self._refresh_state_from_disk()
Refresh(t) ==
    /\ At(t, "_refresh_state_from_disk")
    /\ \E s \in {_refresh_state_from_disk(Self, state_file)} :
        /\ _state' = s.state
        /\ _state_mtime' = s.state_mtime
        /\ _records' = s.records
    /\ Forward(t)
    /\ UNCHANGED <<state_file, _module_mtimes, sys_modules, tmp, locks>>
    /\ StepFrame

\* self._state[name] = True / False
SetEntry(t) ==
    /\ At(t, "set")
    /\ _state' = Put(_state, Frame(t).name, Frame(t).op = "enable")
    /\ Forward(t)
    /\ UNCHANGED <<state_file, _state_mtime, _module_mtimes, _records, sys_modules,
                   tmp, locks>>
    /\ StepFrame

\* return self._state.get(name, False)
GetEntry(t) ==
    /\ At(t, "get")
    /\ ForwardWith(t, [Frame(t) EXCEPT !.ret = StateGet(_state, Frame(t).name)])
    /\ UNCHANGED <<state_file, _state, _state_mtime, _module_mtimes, _records,
                   sys_modules, tmp, locks>>
    /\ StepFrame

\* _save_state: payload = json.dumps(self._state)
DumpState(t) ==
    /\ At(t, "dumps")
    /\ ForwardWith(t, [Frame(t) EXCEPT !.payload = SavedFile(Self, Frame(t).m)])
    /\ UNCHANGED <<state_file, _state, _state_mtime, _module_mtimes, _records,
                   sys_modules, tmp, locks>>
    /\ StepFrame

\* _save_state: tmp.write_text(payload)
WriteTmpFile(t) ==
    /\ At(t, "write_text")
    /\ tmp' = Frame(t).payload
    /\ Forward(t)
    /\ UNCHANGED <<state_file, _state, _state_mtime, _module_mtimes, _records,
                   sys_modules, locks>>
    /\ StepFrame

\* _save_state: tmp.replace(self.state_file); FileNotFoundError from the
\* rename in the except clause leaves the call
ReplaceStateFile(t) ==
    /\ At(t, "replace")
    /\ IF tmp.exists
       THEN /\ state_file' = tmp
            /\ tmp' = NoFile
            /\ Forward(t)
       ELSE /\ UNCHANGED <<state_file, tmp>>
            /\ threads' = [threads EXCEPT
                    ![t][1] = [Frame(t) EXCEPT
                                 !.raised = TRUE,
                                 !.pc = IndexOf(StepsOf(Frame(t).op), "release")]]
    /\ UNCHANGED <<_state, _state_mtime, _module_mtimes, _records, sys_modules, locks>>
    /\ StepFrame

\* _save_state: self._state_mtime = self._state_file_mtime()
StatStateFile(t) ==
    /\ At(t, "_state_file_mtime")
    /\ _state_mtime' = _state_file_mtime(state_file)
    /\ IF Frame(t).op = "load_plugins" THEN Goto(t, "release") ELSE Forward(t)
    /\ UNCHANGED <<state_file, _state, _module_mtimes, _records, sys_modules, tmp, locks>>
    /\ StepFrame

\* record = self._records.get(name); if record: record.enabled = ...
SetRecordEnabled(t) ==
    /\ At(t, "record")
    /\ _records' = IF Frame(t).name \in DOMAIN _records
                   THEN [_records EXCEPT ![Frame(t).name].enabled = Frame(t).op = "enable"]
                   ELSE _records
    /\ Forward(t)
    /\ UNCHANGED <<state_file, _state, _state_mtime, _module_mtimes, sys_modules,
                   tmp, locks>>
    /\ StepFrame

\* for plugin_dir in self._iter_plugin_dirs():
IterDirs(t) ==
    /\ At(t, "iterdir")
    /\ ForwardWith(t, [Frame(t) EXCEPT !.dirs = _iter_plugin_dirs(fs), !.ret = <<>>])
    /\ UNCHANGED <<state_file, _state, _state_mtime, _module_mtimes, _records,
                   sys_modules, tmp, locks>>
    /\ StepFrame

\* the registry and the modules as one turn of the loop finds them
Acc(t) == [self |-> Self, mods |-> sys_modules, executed |-> {}, ret |-> Frame(t).ret,
           raised |-> FALSE]

SetAcc(acc) ==
    /\ _state' = acc.self.state
    /\ _state_mtime' = acc.self.state_mtime
    /\ _module_mtimes' = acc.self.module_mtimes
    /\ _records' = acc.self.records
    /\ sys_modules' = acc.mods

\* one turn of the loop: the load routine of the plugin is run (or its record
\* is found in the cache)
ExecPlugin(t) ==
    /\ At(t, "exec_module")
    /\ Frame(t).dirs # <<>>
    /\ \E acc \in {LoadOne(Acc(t), Head(Frame(t).dirs), fs, routes)} :
        /\ SetAcc(acc)
        /\ threads' = [threads EXCEPT ![t][1] =
                [Frame(t) EXCEPT !.dirs = Tail(@), !.ret = acc.ret]]
    /\ UNCHANGED <<state_file, tmp, locks>>
    /\ StepFrame

\* after the loop: the stale records are dropped
DropRecords(t) ==
    /\ At(t, "exec_module")
    /\ Frame(t).dirs = <<>>
    /\ SetAcc(DropStale(Acc(t), Range(Frame(t).ret)))
    /\ Forward(t)
    /\ UNCHANGED <<state_file, tmp, locks>>
    /\ StepFrame

\* _sync_plugin_states up to its own _save_state
SyncStates(t) ==
    /\ At(t, "_sync_plugin_states")
    /\ \E r \in {_sync_plugin_states(Self, state_file, Frame(t).ret, Frame(t).m)} :
        /\ _state' = r.self.state
        /\ IF r.updated \/ ~state_file.exists THEN Forward(t) ELSE Goto(t, "release")
    /\ UNCHANGED <<state_file, _state_mtime, _module_mtimes, _records, sys_modules,
                   tmp, locks>>
    /\ StepFrame

\* the end of `with self._lock`: the call returns
Leave(t) ==
    /\ At(t, "release")
    /\ locks' = [locks EXCEPT ![LoaderLock] =
                    IF @.count <= 1 THEN [owner |-> NoThread, count |-> 0]
                    ELSE [@ EXCEPT !.count = @ - 1]]
    /\ threads' = [threads EXCEPT ![t] = <<>>]
    /\ UNCHANGED <<loaderVars, permVars, userVars, httpVars, ioVars>>

(* SpecThreads: two threads call enable, disable, is_enabled and            *)
(* load_plugins of one PluginRegistry in any interleaving of their steps;   *)
(* the plugin tree is edited from outside while no call is running          *)

\* the calls the threads make: a name where the call takes one, and the
\* fingerprint of the file where the call may write one
Calls ==
    {[op |-> op, name |-> name, m |-> m] :
        op \in {"enable", "disable"}, name \in Plugins, m \in Mtimes}
    \cup {[op |-> "is_enabled", name |-> name, m |-> NoMtime] : name \in Plugins}
    \cup {[op |-> "load_plugins", name |-> None, m |-> m] : m \in Mtimes}

InitThreads == InitWith({NoFile}, {1})

NextThreads ==
    \/ \E t \in Threads, c \in Calls : Call(t, c.op, c.name, c.m)
    \/ \E t \in Threads : Enter(t)
    \/ \E t \in Threads : Refresh(t)
    \/ \E t \in Threads : SetEntry(t)
    \/ \E t \in Threads : GetEntry(t)
    \/ \E t \in Threads : DumpState(t)
    \/ \E t \in Threads : WriteTmpFile(t)
    \/ \E t \in Threads : ReplaceStateFile(t)
    \/ \E t \in Threads : StatStateFile(t)
    \/ \E t \in Threads : SetRecordEnabled(t)
    \/ \E t \in Threads : IterDirs(t)
    \/ \E t \in Threads : ExecPlugin(t)
    \/ \E t \in Threads : DropRecords(t)
    \/ \E t \in Threads : SyncStates(t)
    \/ \E t \in Threads : Leave(t)
    \/ \E p \in Plugins : Quiet /\ WritePlugin(p, "v1", 1)
    \/ \E p \in Plugins : Quiet /\ RemoveDir(p)

SpecThreads == InitThreads /\ [][NextThreads]_vars

----------------------------------------------------------------------------
(* include_plugins statement by statement.  The routes switch_plugin and    *)
(* refresh_plugins are plain functions, which the server runs on the        *)
(* threads of a pool: two of them can be inside include_plugins at once.    *)
(* Only its call of load_plugins is made under the lock of the registry     *)

BinderSteps == <<"load_plugins", "stale", "unbind", "check", "bind", "invalidate">>
BinderAt(t, step) == threads[t] # <<>> /\ BinderSteps[Frame(t).pc] = step
BinderGoto(t, frame, step) ==
    threads' = [threads EXCEPT ![t][1] = [frame EXCEPT !.pc = IndexOf(BinderSteps, step)]]
NoBinder == \A t \in Threads : threads[t] = <<>>

\* the application as the binder sees it now
TheApp(t) == [routes |-> routes, registered |-> registered_plugins,
              changed |-> Frame(t).changed, stale |-> {}]

BinderFrame == UNCHANGED <<fs, state_file, edits, _state, _state_mtime, _module_mtimes,
                           _records, sys_modules, unseen, out, permVars, userVars, httpVars,
                           ioVars, locks>>

\* a thread of the pool enters include_plugins
CallInclude(t) ==
    /\ threads[t] = <<>>
    /\ threads' = [threads EXCEPT ![t] =
            <<[op |-> "include_plugins", pc |-> 1, records |-> <<>>, stale |-> <<>>,
               changed |-> FALSE]>>]
    /\ UNCHANGED <<loaderVars, permVars, userVars, httpVars, ioVars, locks>>

\* records = reg.load_plugins(): the whole pass, under the lock
BinderLoad(t) ==
    /\ BinderAt(t, "load_plugins")
    /\ \E r \in {load_plugins(Self, state_file, fs, sys_modules, routes, 1)} :
        /\ _state' = r.self.state
        /\ _state_mtime' = r.self.state_mtime
        /\ _module_mtimes' = r.self.module_mtimes
        /\ _records' = r.self.records
        /\ state_file' = r.file
        /\ sys_modules' = r.mods
        /\ BinderGoto(t, [Frame(t) EXCEPT
                            !.records = [i \in DOMAIN r.ret |-> r.self.records[r.ret[i]]]],
                      "stale")
    /\ UNCHANGED <<fs, edits, routes, registered_plugins, openapi_schema, unseen, out,
                   permVars, userVars, httpVars, ioVars, locks>>

\* stale = [name for name in registered_plugins.keys() if name not in current_names]
BinderStale(t) ==
    /\ BinderAt(t, "stale")
    /\ BinderGoto(t, [Frame(t) EXCEPT
            !.stale = SeqOf({n \in DOMAIN registered_plugins :
                                n \notin {Frame(t).records[i].name :
                                            i \in DOMAIN Frame(t).records}})],
                  "unbind")
    /\ UNCHANGED <<routes, registered_plugins, openapi_schema>>
    /\ BinderFrame

\* one turn of `for name in stale`
BinderUnbind(t) ==
    /\ BinderAt(t, "unbind")
    /\ IF Frame(t).stale = <<>>
       THEN /\ BinderGoto(t, Frame(t), "check")
            /\ UNCHANGED <<routes, registered_plugins>>
       ELSE \E app \in {UnbindOne(TheApp(t), Head(Frame(t).stale))} :
            /\ routes' = app.routes
            /\ registered_plugins' = app.registered
            /\ BinderGoto(t, [Frame(t) EXCEPT !.stale = Tail(@), !.changed = app.changed],
                          "unbind")
    /\ UNCHANGED openapi_schema
    /\ BinderFrame

\* the head of a turn of `for record in records`, loader.py 407-411: a record
\* bound with its fingerprint is passed over, the routes of one bound with
\* another are removed
BinderCheck(t) ==
    /\ BinderAt(t, "check")
    /\ IF Frame(t).records = <<>>
       THEN /\ BinderGoto(t, Frame(t), "invalidate")
            /\ UNCHANGED routes
       ELSE LET record == Head(Frame(t).records)
                bound == record.name \in DOMAIN registered_plugins
                removed == _remove_plugin_routes(routes, record.name)
            IN IF bound /\ registered_plugins[record.name] = record.module_mtime_ns
               THEN /\ BinderGoto(t, [Frame(t) EXCEPT !.records = Tail(@)], "check")
                    /\ UNCHANGED routes
               ELSE IF bound
               THEN /\ routes' = removed.routes
                    /\ BinderGoto(t, [Frame(t) EXCEPT !.changed = @ \/ removed.changed],
                                  "bind")
               ELSE /\ BinderGoto(t, Frame(t), "bind")
                    /\ UNCHANGED routes
    /\ UNCHANGED <<registered_plugins, openapi_schema>>
    /\ BinderFrame

\* the rest of the turn, loader.py 413-426: the entry of a record without route
\* group is popped, the route groups of another are bound and its fingerprint
\* is stored
BinderBind(t) ==
    /\ BinderAt(t, "bind")
    /\ LET record == Head(Frame(t).records) IN
       IF record.routers = <<>>
       THEN /\ registered_plugins' = Pop(registered_plugins, record.name)
            /\ UNCHANGED routes
            /\ BinderGoto(t, [Frame(t) EXCEPT !.records = Tail(@)], "check")
       ELSE /\ routes' = IncludeRouters(routes, record.routers, record.name)
            /\ registered_plugins' =
                    Put(registered_plugins, record.name, record.module_mtime_ns)
            /\ BinderGoto(t, [Frame(t) EXCEPT !.records = Tail(@), !.changed = TRUE],
                          "check")
    /\ UNCHANGED openapi_schema
    /\ BinderFrame

\* if routes_changed: app.openapi_schema = None; return records
BinderReturn(t) ==
    /\ BinderAt(t, "invalidate")
    /\ openapi_schema' = IF Frame(t).changed THEN NoDescription ELSE openapi_schema
    /\ threads' = [threads EXCEPT ![t] = <<>>]
    /\ out' = [op |-> "include_plugins", thread |-> t]
    /\ UNCHANGED <<fs, state_file, edits, _state, _state_mtime, _module_mtimes,
                   _records, sys_modules, routes, registered_plugins, unseen,
                   permVars, userVars, httpVars, ioVars, locks>>

(* SpecBinders: two threads of the pool run include_plugins on the same     *)
(* application; the plugin tree is edited from outside while neither is     *)
(* inside                                                                   *)

InitBinders == InitWith({NoFile}, {1})

NextBinders ==
    \/ \E t \in Threads : CallInclude(t)
    \/ \E t \in Threads : BinderLoad(t)
    \/ \E t \in Threads : BinderStale(t)
    \/ \E t \in Threads : BinderUnbind(t)
    \/ \E t \in Threads : BinderCheck(t)
    \/ \E t \in Threads : BinderBind(t)
    \/ \E t \in Threads : BinderReturn(t)
    \/ \E p \in Plugins, src \in {"v1", "v2"} : NoBinder /\ WritePlugin(p, src, 1)
    \/ \E p \in Plugins : NoBinder /\ RemoveDir(p)

SpecBinders == InitBinders /\ [][NextBinders]_vars

----------------------------------------------------------------------------
(* Fragments whose type names and field names hold no colon, as Python      *)
(* identifiers do                                                           *)

\* class Q: x, class X: Y, class W: y and Y, class x: y
PlainPlugin == ModelClass(<<"Q">>, << FieldOf(<<"x">>, "str", "base") >>)
LowerPlugin == ModelClass(<<"x">>, << FieldOf(<<"y">>, "int", "3") >>)
PlainModels == {PlainPlugin, OverridePlugin, CasePlugin, LowerPlugin}
\* no prefix, "Q/" and "q/x"
PlainPrefixes == {NoPrefix, <<"Q", "/">>, <<"q", "/", "x">>}

(* SpecNames: one PermissionsRegistry; the fragments of PlainModels are     *)
(* registered under the prefixes of PlainPrefixes and unregistered, and the *)
(* registry is read                                                         *)

InitNames == InitWith({NoFile}, {1})

NextNames ==
    \/ \E model \in PlainModels, prefix \in PlainPrefixes : Register(model, prefix)
    \/ \E model \in PlainModels : Unregister(model)
    \/ Fields
    \/ Collisions
    \/ ListPlugins

SpecNames == InitNames /\ [][NextNames]_vars

(* SpecKeys: a fresh installation whose state file is written by the store  *)
(* alone; plugins come and go, and every operation of the store runs        *)

InitKeys == InitWith({NoFile}, {1})

NextKeys ==
    \/ \E p \in Plugins : WritePlugin(p, "v1", 1)
    \/ \E p \in Plugins : RemoveDir(p)
    \/ \E m \in Mtimes : LoadPlugins(m)
    \/ \E p \in Plugins, m \in Mtimes : Enable(p, m)
    \/ \E p \in Plugins, m \in Mtimes : Disable(p, m)
    \/ \E p \in Plugins : IsEnabled(p)
    \/ List
    \/ \E p \in Plugins : GetRecord(p)

SpecKeys == InitKeys /\ [][NextKeys]_vars

----------------------------------------------------------------------------
(* In-process requests (core/inprocess_http.py).  The handlers are          *)
(* coroutines of one event loop: a coroutine gives way to the others only   *)
(* where an await has to wait.  `async with lock` waits only for a lock     *)
(* that is held, and nothing under the lock awaits, so a coroutine finds    *)
(* the lock free and runs from the call of inprocess_request to the sending *)
(* of the request in one piece.  The shutdown handler awaits                *)
(* client.aclose() between closing the client and forgetting it             *)

MaxClients == 3

TaskStep == UNCHANGED <<loaderState, permVars, userVars, ioVars, lockVars>>
TaskAt(k, op, pc) == tasks[k].op = op /\ tasks[k].pc = pc
TaskEnds(k) == tasks' = [tasks EXCEPT ![k] = NoTask]
IsClosed(made, c) == made[c] = "closed"

\* a lookup that makes a client whether or not one is cached
GetClientAnew(app, made) ==
    LET c == Len(made) + 1
        a1 == [app EXCEPT !.lock = TRUE, !.client = c]
    IN [app |-> IF a1.hook THEN a1 ELSE [a1 EXCEPT !.hook = TRUE, !.on_shutdown = @ + 1],
        made |-> Append(made, "open"), client |-> c]

\* _get_inprocess_client: [app, made, client]; the lock is made when
\* app.state has none (lines 19-23), the cached client is returned (26-28),
\* or a client is made and cached (30-32) and the shutdown handler added
\* unless the flag says it was (34-39)
_get_inprocess_client(app, made) ==
    LET a0 == [app EXCEPT !.lock = TRUE] IN
    IF a0.client # NoClient
    THEN [app |-> a0, made |-> made, client |-> a0.client]
    ELSE LET c == Len(made) + 1
             a1 == [a0 EXCEPT !.client = c]
         IN [app |-> IF a1.hook THEN a1
                     ELSE [a1 EXCEPT !.hook = TRUE, !.on_shutdown = @ + 1],
             made |-> Append(made, "open"), client |-> c]

\* inprocess_request, lines 48-49: the client is looked up and the request
\* is sent on it; a closed client raises RuntimeError, an open one answers
\* later
CallRequest(k) ==
    /\ tasks[k] = NoTask
    /\ Len(clients) < MaxClients
    /\ \E r \in {_get_inprocess_client(app_state, clients)} :
        /\ app_state' = r.app
        /\ clients' = r.made
        /\ out' = [op |-> "inprocess_request", task |-> k, client |-> r.client,
                   cached |-> r.app.client, raised |-> IsClosed(r.made, r.client)]
        /\ IF IsClosed(r.made, r.client)
           THEN UNCHANGED tasks
           ELSE tasks' = [tasks EXCEPT ![k] = [op |-> "inprocess_request",
                                               pc |-> "request", client |-> r.client]]
    /\ TaskStep

\* line 49: the response of the application arrives
Respond(k) ==
    /\ TaskAt(k, "inprocess_request", "request")
    /\ TaskEnds(k)
    /\ out' = [op |-> "response", task |-> k, client |-> tasks[k].client]
    /\ UNCHANGED <<app_state, clients>>
    /\ TaskStep

\* the application shuts down and runs its shutdown handler:
\* _close_inprocess_client, lines 12-14, up to the await of client.aclose()
CloseClient(k) ==
    /\ tasks[k] = NoTask
    /\ app_state.on_shutdown > 0
    /\ \A j \in Tasks : tasks[j].op # "shutdown"
    /\ IF app_state.client = NoClient
       THEN UNCHANGED <<clients, tasks>>
       ELSE /\ clients' = [clients EXCEPT ![app_state.client] = "closed"]
            /\ tasks' = [tasks EXCEPT ![k] = [op |-> "shutdown", pc |-> "aclose",
                                              client |-> app_state.client]]
    /\ out' = [op |-> "shutdown", task |-> k, client |-> app_state.client]
    /\ UNCHANGED app_state
    /\ TaskStep

\* line 15, after client.aclose() returned: the cached client is forgotten
ForgetClient(k) ==
    /\ TaskAt(k, "shutdown", "aclose")
    /\ app_state' = [app_state EXCEPT !.client = NoClient]
    /\ out' = [op |-> "closed", task |-> k, client |-> tasks[k].client]
    /\ TaskEnds(k)
    /\ UNCHANGED clients
    /\ TaskStep

InitClient == InitWith({NoFile}, {1})

NextClient ==
    \E k \in Tasks :
        \/ CallRequest(k)
        \/ Respond(k)
        \/ CloseClient(k)
        \/ ForgetClient(k)

SpecClient == InitClient /\ [][NextClient]_vars

----------------------------------------------------------------------------
(* Properties of the loader, the store and the binder *)

Dirs == {p \in Plugins : fs[p].dir}
LoadOps == {"load_plugins", "include_plugins"}
AfterLoad == out.op \in LoadOps

\* what is on disk, and what the store would read if it looked now
OnDisk == _load_state(state_file)
Refreshed == _refresh_state_from_disk(Self, state_file)
Effective(p) == StateGet(Refreshed.state, p)

UrlOf(p, leaf) == <<"plugins", p, leaf>>
TaggedRoutes(table, p) == {i \in DOMAIN table : _is_plugin_route(table[i], p)}
Loadable(p) == fs[p].app /\ ~Raises(fs[p].src)

\* C1: a plugin met for the first time (no entry in the state map) is given
\* the flag false by the load pass, in the map and on its record;
\* include_plugins binds its routes all the same; a request to a bound route
\* is answered 503 when the store reports the plugin disabled and reaches the
\* handler (200) otherwise; the report for a plugin turns from disabled to
\* enabled only in enable(name) or by an outside edit of the state file; and
\* the request made right after enable(name) reaches the handler of the same
\* route, the routing table being the one bound before.
C1_DisabledGating ==
    [][\A p \in Plugins :
        /\ (out'.op \in LoadOps /\ fs[p].dir /\ p \notin DOMAIN Refreshed.state)
            => /\ _state'[p] = FALSE
               /\ _records'[p].enabled = FALSE
               /\ (out'.op = "include_plugins" /\ Loadable(p))
                    => \A i \in DOMAIN RouterPaths(fs[p].src) :
                         \A j \in DOMAIN RouterPaths(fs[p].src)[i] :
                            Match(routes', UrlOf(p, RouterPaths(fs[p].src)[i][j])) # 0
        /\ (out'.op = "request" /\ out'.name = p
                /\ Match(routes, UrlOf(p, out'.leaf)) # 0)
            => /\ out'.status = IF Effective(p) THEN 200 ELSE 503
               /\ JustEnabled(p)
                    => /\ out'.status = 200
                       /\ out'.endpoint = routes[Match(routes, UrlOf(p, out'.leaf))].endpoint
                       /\ routes' = routes
        /\ (~Effective(p) /\ Effective(p)')
            => \/ out'.op = "enable" /\ out'.name = p
               \/ out'.op = "edit"
      ]_vars

\* a request reached the handler of a plugin straight after enable(name), and
\* the state map holds nothing but what the load pass and enable put there
C1_Witness ==
    /\ out.op = "request" /\ out.status = 200 /\ out.after_enable
    /\ edits = 1
    /\ DOMAIN _state = {out.name}

C3_CacheHit ==
    [][\A p \in Plugins :
        (out'.op \in LoadOps /\ p \in DOMAIN _records /\ fs[p].app)
            => /\ (_records[p].error = None /\ Get(_module_mtimes, p, NoMtime) = fs[p].mtime)
                    => /\ p \notin out'.executed
                       /\ p \in Range(out'.ret)
                       /\ _records'[p].rid = _records[p].rid
                       /\ _records'[p].routers = _records[p].routers
                       /\ sys_modules'[ModuleName(p)] = sys_modules[ModuleName(p)]
               /\ _records[p].error # None
                    => /\ p \in out'.executed
                       /\ _records'[p].rid # _records[p].rid
      ]_vars

\* a pass returned a Loaded plugin with routers without running its code
C3_Witness ==
    /\ AfterLoad
    /\ \E p \in Range(out.ret) :
        /\ p \notin out.executed
        /\ _records[p].error = None
        /\ _records[p].routers # <<>>

\* C4: in a load pass, a plugin that has a record and whose app.py carries a
\* fingerprint other than the cached one is loaded again: the module of the
\* old record leaves sys.modules for a new module object made from the new
\* text, and the record is replaced by a new one with the new fingerprint and
\* the routers the new text binds (none, and the error, when the text raises).
C4_HotReload ==
    [][\A p \in Plugins :
        (out'.op \in LoadOps /\ p \in DOMAIN _records /\ fs[p].app
            /\ p \in DOMAIN _module_mtimes /\ _module_mtimes[p] # fs[p].mtime)
            => /\ p \in out'.executed
               /\ ModuleName(p) \in DOMAIN sys_modules'
               /\ ModuleName(p) \in DOMAIN sys_modules
                    => sys_modules'[ModuleName(p)].id # sys_modules[ModuleName(p)].id
               /\ sys_modules'[ModuleName(p)].src = fs[p].src
               /\ ValueOf(sys_modules'[ModuleName(p)].src) = ValueOf(fs[p].src)
               /\ _records'[p].rid # _records[p].rid
               /\ _records'[p].module_mtime_ns = fs[p].mtime
               /\ _module_mtimes'[p] = fs[p].mtime
               /\ IF Raises(fs[p].src)
                  THEN _records'[p].error # None /\ _records'[p].routers = <<>>
                  ELSE /\ _records'[p].error = None
                       /\ _records'[p].routers
                            = _find_router_objects(sys_modules'[ModuleName(p)])
                       /\ Len(_records'[p].routers) = Len(RouterPaths(fs[p].src))
      ]_vars

\* a second module object of a plugin was made from text "v2" with the later
\* fingerprint, after two edits of the tree
C4_Witness ==
    /\ AfterLoad
    /\ edits = 2
    /\ \E p \in out.executed :
        /\ sys_modules[ModuleName(p)] = [id |-> <<p, 2>>, src |-> "v2"]
        /\ _records[p].module_mtime_ns = 2
        /\ Len(_records[p].routers) = 2

\* C5: after a load pass every plugin directory has exactly one record,
\* returned once; a plugin whose text raises has the error as a string on its
\* record and every other plugin with a sound app.py is Loaded in the same
\* pass; every record with an error has no router and is in the listing.
C5_Isolation ==
    AfterLoad =>
        /\ Range(out.ret) = Dirs
        /\ Len(out.ret) = Cardinality(Dirs)
        /\ DOMAIN _records = Dirs
        /\ \A p \in Dirs :
            /\ _records[p].name = p
            /\ ~fs[p].app => _records[p].error = "app.py not found"
            /\ (fs[p].app /\ Raises(fs[p].src) /\ p \in out.executed)
                    => _records[p].error = ErrorOf(fs[p].src)
            /\ (Loadable(p) /\ p \in out.executed)
                    => /\ _records[p].error = None
                       /\ Len(_records[p].routers) = Len(RouterPaths(fs[p].src))
            /\ _records[p].error # None => _records[p].routers = <<>>
            /\ \E i \in DOMAIN list(Self, state_file).ret :
                    list(Self, state_file).ret[i] = _records[p]

\* one pass met a plugin that raised and loaded another one
C5_Witness ==
    /\ AfterLoad
    /\ \E p, q \in out.executed :
        /\ _records[p].error = "boom"
        /\ _records[q].error = None
        /\ _records[q].routers # <<>>

\* C6 (as claimed): after a load pass the key set of the state map equals the
\* set of discovered plugins, in memory and in the state file.
C6_Original ==
    AfterLoad => DOMAIN _state = Dirs /\ DOMAIN OnDisk = Dirs

\* C6 (amended): a load pass leaves the in-memory state map with exactly the
\* discovered plugins as keys: a discovered plugin that had no entry has the
\* entry false, one that had an entry keeps its value, the other entries are
\* gone; when the key set changed the file was written in that pass with the
\* new map; and the state file holds the in-memory map unless it was edited
\* from outside without a change of fingerprint since the store last read or
\* wrote it.
C6_StateKeys ==
    [][out'.op \in LoadOps =>
        /\ DOMAIN _state' = Dirs
        /\ \A p \in Dirs : _state'[p] = StateGet(Refreshed.state, p)
        /\ state_file'.exists
        /\ DOMAIN Refreshed.state # Dirs
            => /\ out'.updated
               /\ state_file'.ok
               /\ state_file'.data = Dumps(_state')
               /\ _state_mtime' = state_file'.mtime
        /\ ~unseen' => OnDisk' = _state' /\ DOMAIN OnDisk' = Dirs
      ]_vars

\* a pass wrote the defaults of two plugins met for the first time over a
\* state file that held none of them
C6_Witness ==
    /\ AfterLoad
    /\ out.updated
    /\ Dirs = Plugins
    /\ \A p \in Plugins : _state[p] = FALSE /\ state_file.data[p] = "false"
    /\ edits = 2

\* C7: when the state file exists with a fingerprint other than the last one
\* seen, the next call of the store reads the whole map again before it
\* answers: is_enabled and the guard of a bound route answer with the value
\* on disk, enable/disable change one entry of the map on disk, a load pass
\* takes the flags of the discovered plugins from disk; and the records that
\* list, get and a load pass return carry the flag of the state map, false
\* for a name it lacks.
FingerprintChanged == state_file.exists /\ state_file.mtime # _state_mtime

C7_ExternalEdit ==
    [][/\ FingerprintChanged =>
            /\ out'.op \in {"is_enabled", "list", "get"}
                => _state' = OnDisk /\ _state_mtime' = state_file.mtime
            /\ out'.op = "is_enabled" => out'.ret = StateGet(OnDisk, out'.name)
            /\ (out'.op = "request" /\ Match(routes, UrlOf(out'.name, out'.leaf)) # 0)
                => /\ _state' = OnDisk
                   /\ out'.status = IF StateGet(OnDisk, out'.name) THEN 200 ELSE 503
            /\ out'.op = "enable"
                => _state' = Put(OnDisk, out'.name, TRUE) /\ OnDisk' = _state'
            /\ out'.op = "disable"
                => _state' = Put(OnDisk, out'.name, FALSE) /\ OnDisk' = _state'
            /\ out'.op \in LoadOps
                => \A p \in Dirs : _state'[p] = StateGet(OnDisk, p)
       /\ out'.op = "list"
            => /\ {out'.ret[i].name : i \in DOMAIN out'.ret} = DOMAIN _records'
               /\ \A i \in DOMAIN out'.ret :
                    out'.ret[i].enabled = StateGet(_state', out'.ret[i].name)
       /\ (out'.op = "get" /\ out'.found)
            => out'.ret.enabled = StateGet(_state', out'.name)
       /\ out'.op \in LoadOps
            => \A p \in Range(out'.ret) : _records'[p].enabled = StateGet(_state', p)
      ]_vars

\* is_enabled read the file again and answered true for a plugin that
\* enable was never called for
C7_Witness ==
    /\ out.op = "is_enabled" /\ out.reloaded /\ out.ret
    /\ edits = 1
    /\ state_file.data[out.name] = "true"

----------------------------------------------------------------------------
(* Properties of the permissions schema registry *)

Composed(record) == {record.name_map[o] : o \in DOMAIN record.name_map}
Priority(record) == IF Truthy(record.prefix) THEN 2 ELSE 1
Claimants(n) == {i \in DOMAIN _plugins : n \in Composed(_plugins[i])}
\* the field a registered fragment declares for the composed name n: the last
\* one in declaration order when two of its fields compose to n
Declared(record, n) ==
    LET model_fields == record.model_class.model_fields
        at == {i \in DOMAIN model_fields : record.name_map[model_fields[i].name] = n}
    IN model_fields[CHOOSE i \in at : \A j \in at : j <= i]
EntryOf(record, n) ==
    [annotation |-> Declared(record, n).annotation,
     field_info |-> Declared(record, n).field_info,
     priority |-> Priority(record), source_plugin |-> record.name]
\* what fields(), schema() and default_permissions() show under n is the
\* field that the record declares
Observed(record, n) ==
    /\ n \in DOMAIN _fields /\ _fields[n] = EntryOf(record, n)
    /\ out.op = "fields"
        => n \in DOMAIN out.ret
           /\ out.ret[n] = <<Declared(record, n).annotation,
                             Declared(record, n).field_info.default,
                             Priority(record), record.name>>
    /\ out.op = "schema"
        => out.raised = None /\ n \in DOMAIN out.ret.fields
           /\ out.ret.fields[n] = [annotation |-> Declared(record, n).annotation,
                                   field_info |-> Declared(record, n).field_info]
    /\ out.op = "default_permissions"
        => n \in DOMAIN out.ret
           /\ out.ret[n] = Declared(record, n).field_info.default

\* C8: when a fragment A of priority 1 (no prefix) and a fragment B of
\* priority 2 (prefix) compose the same field name, whichever was registered
\* first, the entry under that name is B's: fields(), the composed schema and
\* default_permissions() show B's type, default and source plugin (the last
\* registered B when several prefixed fragments compose the name).
C8_Priority ==
    \A a, b \in DOMAIN _plugins :
        \A n \in Composed(_plugins[a]) \cap Composed(_plugins[b]) :
            (/\ Priority(_plugins[a]) = 1
             /\ Priority(_plugins[b]) = 2
             /\ \A c \in Claimants(n) : Priority(_plugins[c]) = 2 => c <= b)
            => Observed(_plugins[b], n)

\* fields() is read where the unprefixed fragment was registered after the
\* prefixed one that composes the same name, and shows the prefixed one's field
C8_Witness ==
    /\ out.op = "fields"
    /\ \E a, b \in DOMAIN _plugins :
        /\ b < a
        /\ Priority(_plugins[a]) = 1 /\ Priority(_plugins[b]) = 2
        /\ \E n \in Composed(_plugins[a]) \cap Composed(_plugins[b]) :
            /\ out.ret[n][4] = _plugins[b].name
            /\ out.ret[n][2] # Declared(_plugins[a], n).field_info.default

\* C9: when two registered fragments of equal priority compose the same field
\* name (and no fragment of higher priority composes it), the entry of the one
\* registered later is the one fields(), the composed schema and
\* default_permissions() show; and register of a schema type whose name is
\* not registered yet never raises, collision or not: it raises only the
\* duplicate-name error, for a name that is registered.
C9_EqualPriority ==
    /\ \A a, b \in DOMAIN _plugins :
        \A n \in Composed(_plugins[a]) \cap Composed(_plugins[b]) :
            (/\ a < b
             /\ Priority(_plugins[a]) = Priority(_plugins[b])
             /\ \A c \in Claimants(n) :
                    /\ Priority(_plugins[c]) <= Priority(_plugins[b])
                    /\ Priority(_plugins[c]) = Priority(_plugins[b]) => c <= b)
            => Observed(_plugins[b], n)
    /\ (out.op = "register" /\ _is_pydantic_model(out.model))
        => IF out.raised = None
           THEN /\ _plugins # <<>>
                /\ _plugins[Len(_plugins)].name = Lower(out.model.name)
                /\ _plugins[Len(_plugins)].model_class = out.model
           ELSE /\ out.raised = "ValueError"
                /\ Lower(out.model.name) \in PluginNames(_plugins)

\* a register that collided with an earlier registration of the same priority
\* returned, and the entry is the new registration's
C9_Witness ==
    /\ out.op = "register" /\ out.raised = None
    /\ Len(_plugins) = 2
    /\ Priority(_plugins[1]) = Priority(_plugins[2])
    /\ \E n \in Composed(_plugins[1]) \cap Composed(_plugins[2]) :
        /\ _fields[n].source_plugin = _plugins[2].name
        /\ _fields[n].field_info # Declared(_plugins[1], n).field_info
        /\ n \in DOMAIN _collisions

\* the record of the fragment that the last unmap was asked for
Target == _plugins[PluginAt(_plugins, Lower(out.model.name))]
Unmapped == out.op = "unmap" /\ out.raised = None
OwnDefaults(record) ==
    /\ DOMAIN out.ret = {f.name : f \in Range(record.model_class.model_fields)}
    /\ \A f \in Range(record.model_class.model_fields) :
            f.name \in DOMAIN out.ret /\ out.ret[f.name] = f.field_info.default
\* the value passed to instance() under a composed name of the fragment comes
\* back under the original names of that composed name
PassedBack(record) ==
    \A n \in DOMAIN obj.kwargs \cap Composed(record) :
        \A o \in DOMAIN record.name_map :
            record.name_map[o] = n => o \in DOMAIN out.ret /\ out.ret[o] = obj.kwargs[n]

OwnsAll(record) ==
    /\ \A n \in Composed(record) : _fields[n].source_plugin = record.name
    /\ \A o1, o2 \in DOMAIN record.name_map :
            record.name_map[o1] = record.name_map[o2] => o1 = o2

C11_Original ==
    (out.op = "unmap" /\ Lower(out.model.name) \in PluginNames(_plugins))
        => /\ out.raised = None
           /\ DOMAIN out.ret =
                {o \in DOMAIN Target.name_map :
                    _fields[Target.name_map[o]].source_plugin = Target.name}

\* C12 (as claimed): for a composed name that two registrations compose, the
\* plugin recorded under that name is the one whose entry is not in the
\* composed schema.
C12_Original ==
    \A n \in DOMAIN _collisions :
        Cardinality(Claimants(n)) > 1 => _collisions[n] # _fields[n].source_plugin

\* C12 (amended): the names recorded as collisions are exactly the composed
\* names that more than one field of the registered fragments composes; the
\* plugin recorded under such a name is the one whose entry won the name, the
\* source of the entry in fields() and in the composed schema; collisions()
\* answers with the recorded names, without the plugin ids.
FieldsComposing(n) ==
    {<<i, o>> \in UNION {{i} \X DOMAIN _plugins[i].name_map : i \in DOMAIN _plugins} :
        _plugins[i].name_map[o] = n}

C12_CollisionWinner ==
    /\ DOMAIN _collisions = {n \in DOMAIN _fields : Cardinality(FieldsComposing(n)) > 1}
    /\ \A n \in DOMAIN _collisions :
        /\ _collisions[n] = _fields[n].source_plugin
        /\ _collisions[n] \in {_plugins[i].name : i \in Claimants(n)}
    /\ out.op = "collisions" => out.ret = DOMAIN _collisions

\* collisions() was read where an unprefixed fragment registered after a
\* prefixed one lost the name to it, and the prefixed one is on record
C12_Witness ==
    /\ out.op = "collisions" /\ out.ret # {}
    /\ Len(_plugins) = 2
    /\ Priority(_plugins[1]) = 2 /\ Priority(_plugins[2]) = 1
    /\ \E n \in out.ret :
        /\ Claimants(n) = {1, 2}
        /\ _collisions[n] = _plugins[1].name

\* C13: register of something that is not a schema type raises TypeError, and
\* register of a fragment whose lowercased type name is registered raises
\* ValueError; the rejected call leaves the plugins, the name tables, the
\* fields, the collisions, the composed schema and the Dirty flag as they were.
C13_RegisterRejected ==
    [][(out'.op = "register"
            /\ (~_is_pydantic_model(out'.model)
                \/ Lower(out'.model.name) \in PluginNames(_plugins)))
        => /\ out'.raised = IF ~_is_pydantic_model(out'.model)
                            THEN "TypeError" ELSE "ValueError"
           /\ UNCHANGED <<_plugins, _fields, _collisions, _model, _dirty>>
           /\ plugins(PSelf)' = plugins(PSelf)
           /\ fields(PSelf)' = fields(PSelf)
           /\ collisions(PSelf)' = collisions(PSelf)
           /\ schema(PSelf)' = schema(PSelf)
      ]_vars

\* a fragment was registered once more under another prefix and was rejected
C13_Witness ==
    /\ out.op = "register" /\ out.raised = "ValueError"
    /\ Len(_plugins) = 1
    /\ _plugins[1].model_class = out.model
    /\ Priority(_plugins[1]) = 1 /\ Truthy(out.prefix)

\* C14: a permission update for an existing role with at least one key that
\* is not a key of fields() answers 400 and leaves the roles table as it was,
\* the valid keys of the same payload included.
C14_UnknownKeyRejected ==
    [][(out'.op = "patch_role_permissions"
            /\ out'.name \in DOMAIN roles
            /\ DOMAIN out'.payload \ DOMAIN fields(PSelf) # {})
        => /\ out'.status = 400
           /\ roles' = roles
      ]_vars

\* a payload with a known key and an unknown one was rejected, and the role
\* keeps another value under the known key than the payload carried
C14_Witness ==
    /\ out.op = "patch_role_permissions" /\ out.status = 400
    /\ out.name \in DOMAIN roles
    /\ \E k \in DOMAIN out.payload \cap DOMAIN fields(PSelf) :
        /\ k \in DOMAIN roles[out.name]
        /\ roles[out.name][k] # out.payload[k]
        /\ TypeOf(out.payload[k]) = _fields[k].annotation
    /\ DOMAIN out.payload \ DOMAIN fields(PSelf) # {}
    /\ DOMAIN default_permissions(PSelf) \ DOMAIN roles[out.name] # {}

\* the calls of listeners made by the last call, and the calls that broadcast
Notified == IF "notified" \in DOMAIN out THEN out.notified ELSE <<>>
Mutators == {"register", "register_many", "unregister"}
Succeeded == out.op \in Mutators /\ out.raised = None
TimesCalled(listener) ==
    Cardinality({i \in DOMAIN Notified : Notified[i].listener = listener})

C16_ListenerFailure ==
    (\E i \in DOMAIN Notified : Notified[i].raised # None)
        => /\ out.op \in Mutators /\ out.raised = None
           /\ [i \in DOMAIN Notified |-> Notified[i].listener] = _change_listeners
           /\ \A i \in DOMAIN Notified : Notified[i].saw = plugins(PSelf)
           /\ out.op = "register" => Lower(out.model.name) \in Range(plugins(PSelf))
           /\ out.op = "unregister" => Lower(out.model.name) \notin Range(plugins(PSelf))
           /\ out.op = "register_many" => Len(_plugins) >= out.entries /\ ~_dirty

\* the first listener raised during the broadcast of an unregister and the
\* second was called after it
C16_Witness ==
    /\ out.op = "unregister" /\ out.raised = None
    /\ Len(out.notified) = 2
    /\ out.notified[1].raised # None
    /\ out.notified[2].raised = None
    /\ Len(_plugins) = 1

\* C17: every write of the state file goes to the temporary file first, which
\* is then renamed over the state file; a reader that opens the state file at
\* any moment of an enable, a disable or a load pass reads a complete map,
\* the previous one or the new one.
C17_AtomicWrite ==
    /\ out.op = "read" =>
        /\ out.seen.exists /\ out.seen.ok
        /\ out.seen \in {out.previous, out.new}
        /\ out.during \in {"open", "write", "replace"} => out.seen = out.previous
    /\ writer.pc \in {"write", "replace"} => tmp.exists /\ state_file = writer.prev
    /\ writer.pc = "replace" => tmp = writer.file
    /\ state_file.exists /\ state_file.ok

\* the reader came when the new map was in the temporary file, whole, and
\* not yet renamed: it read the previous map, which differs from the new one
C17_Witness ==
    /\ out.op = "read" /\ out.during = "replace"
    /\ writer.pc = "replace"
    /\ out.seen = out.previous
    /\ out.new.data # out.previous.data
    /\ out.previous.data # EmptyMap

\* the state file cannot be used: it is missing, or what it holds is not a
\* JSON object that can be read
Unusable == ~state_file.exists \/ ~state_file.ok

\* C18 (as claimed): whenever the state file is missing, unreadable or
\* unparsable, is_enabled answers false for every plugin and the map is
\* empty; enable and disable leave a valid file that holds the map, and a
\* load pass leaves the file in place, valid when it had something to save.
C18_Original ==
    /\ (out.op = "is_enabled" /\ Unusable) => ~out.ret /\ _state = EmptyMap
    /\ out.op \in {"enable", "disable"} =>
        /\ state_file.exists /\ state_file.ok
        /\ OnDisk = _state
        /\ _state[out.name] = (out.op = "enable")
    /\ AfterLoad =>
        /\ state_file.exists
        /\ out.updated => state_file.ok /\ OnDisk = _state

\* C18 (amended): the same, for a state file that the store reads: a file
\* that became unparsable while keeping the fingerprint the store has cached
\* is not read again, and is_enabled goes on answering from the map in memory.
C18_Degrade ==
    /\ (out.op = "is_enabled" /\ Unusable /\ ~unseen) => ~out.ret /\ _state = EmptyMap
    /\ (out.op = "is_enabled" /\ Unusable /\ out.reloaded) => ~out.ret /\ _state = EmptyMap
    /\ out.op \in {"enable", "disable"} =>
        /\ state_file.exists /\ state_file.ok
        /\ OnDisk = _state
        /\ _state[out.name] = (out.op = "enable")
    /\ AfterLoad =>
        /\ state_file.exists
        /\ out.updated => state_file.ok /\ OnDisk = _state

\* is_enabled read a state file that had been made unparsable from outside
\* and answered false for a plugin that has a record
C18_Witness ==
    /\ out.op = "is_enabled" /\ out.reloaded
    /\ state_file.exists /\ ~state_file.ok
    /\ ~out.ret
    /\ out.name \in DOMAIN _records
    /\ _state = EmptyMap

\* C19 (as claimed): whatever register, register_many and unregister calls
\* came before, those that raised included, schema() and instance() answer
\* with a composed schema whose field names are the keys of fields(), and the
\* registry is Clean after they answered; with no field registered schema()
\* has nothing to answer with.
C19_Original ==
    /\ out.op = "schema" =>
        /\ ~_dirty
        /\ out.raised = None => DOMAIN out.ret.fields = DOMAIN fields(PSelf)
        /\ out.raised = "RuntimeError" => DOMAIN fields(PSelf) = {}
    /\ out.op = "instance" =>
        /\ ~_dirty
        /\ out.raised = None => DOMAIN obj.schema.fields = DOMAIN fields(PSelf)
        /\ out.raised = "RuntimeError" => DOMAIN fields(PSelf) = {}

\* the registry that registering the fragments of `records`, in their order
\* and under their prefixes, produces from an empty one
RECURSIVE Replay(_, _)
Replay(self, records) ==
    IF records = <<>> THEN self
    ELSE Replay(_register_model(self, Head(records).model_class, Head(records).prefix,
                                TRUE).self,
                Tail(records))
Remaining(records, plugin_name) ==
    SelectSeq(records, LAMBDA record : record.name # plugin_name)

\* a register of the fragment of the last call, as the registry is now
RegisteredAgain == register(PSelf, out.model, NoPrefix)

\* C20: unregister of a registered fragment F takes F's id out of plugins(),
\* the other ids keeping their order; a register of F then succeeds; fields()
\* and collisions() are those of the remaining fragments registered in their
\* original order on an empty registry. unregister of a fragment that is not
\* registered raises KeyError and changes nothing.
C20_Unregister ==
    /\ []((out.op = "unregister" /\ out.raised = None) => RegisteredAgain.raised = None)
    /\ [][out'.op = "unregister" =>
           LET plugin_name == Lower(out'.model.name)
               replayed == Replay(PermissionsRegistryInit, Remaining(_plugins, plugin_name))
           IN IF plugin_name \in PluginNames(_plugins)
              THEN /\ out'.raised = None
                   /\ plugin_name \notin Range(plugins(PSelf)')
                   /\ plugins(PSelf)' = plugins(replayed)
                   /\ fields(PSelf)' = fields(replayed)
                   /\ collisions(PSelf)' = collisions(replayed)
                   /\ _collisions' = replayed.collisions
                   /\ schema(PSelf)' = schema(replayed) /\ ~_dirty'
              ELSE /\ out'.raised = "KeyError"
                   /\ UNCHANGED <<_plugins, _fields, _collisions, _model, _dirty>>
         ]_vars

\* a fragment that owned a name it had taken from another was unregistered:
\* the name is back with the remaining fragment and no collision is on record
C20_Witness ==
    /\ out.op = "unregister" /\ out.raised = None
    /\ out.evicting # {}
    /\ Len(_plugins) = 1
    /\ \A n \in out.evicting :
        /\ n \in DOMAIN _fields
        /\ _fields[n].source_plugin = _plugins[1].name
        /\ n \notin DOMAIN _collisions

C22_FilteredDescription ==
    (out.op = "openapi" /\ out.regenerated) =>
        /\ \A i \in DOMAIN routes :
            LET listed == \E j \in DOMAIN out.ret.routes :
                            /\ out.ret.routes[j].path = routes[i].path
                            /\ out.ret.routes[j].tags = routes[i].tags
            IN IF plugin_tags(routes[i]) = {} THEN listed
               ELSE listed <=> \A tag \in plugin_tags(routes[i]) :
                                    is_enabled(Self, state_file, tag[2]).ret
        /\ \A j \in DOMAIN out.ret.routes :
            \E i \in DOMAIN routes : routes[i].path = out.ret.routes[j].path

\* a description was regenerated with the routes of an enabled and of a
\* disabled plugin in the table, the flags coming from an outside edit
C22_Witness ==
    /\ out.op = "openapi" /\ out.regenerated
    /\ \E i, j \in DOMAIN routes :
        /\ routes[i].guard = "a" /\ routes[j].guard = "b"
        /\ \E k \in DOMAIN out.ret.routes : out.ret.routes[k].path = routes[i].path
        /\ \A k \in DOMAIN out.ret.routes : out.ret.routes[k].path # routes[j].path
    /\ \E k \in DOMAIN out.ret.routes : out.ret.routes[k].path = PermissionsPath

\* C23: the description handed out by a description request holds the schema
\* composed by the registry as the named type PermissionModel, with the
\* fields the registry composes now, and the request body of the
\* permission-update operation refers to that type.
C23_Original ==
    (out.op = "openapi" /\ DOMAIN fields(PSelf) # {}) =>
        /\ ModelName \in DOMAIN out.ret.schemas
        /\ DOMAIN out.ret.schemas[ModelName] = DOMAIN fields(PSelf)
        /\ out.ret.request_body[PermissionsPath].ref = ModelName

\* the route groups of a plugin were bound, or unbound, by the step
BoundAGroup ==
    \E p \in DOMAIN registered_plugins' :
        p \in DOMAIN registered_plugins => registered_plugins'[p] # registered_plugins[p]
UnboundAGroup ==
    \E p \in DOMAIN registered_plugins :
        p \in DOMAIN registered_plugins' => registered_plugins'[p] # registered_plugins[p]
RemovedARoute ==
    \E i \in DOMAIN routes : \A j \in DOMAIN routes' : routes'[j] # routes[i]
\* a description request and a second include_plugins, nothing in between
Described == custom_openapi(Self, state_file, routes, openapi_schema, PSelf)
IncludedAgain ==
    include_plugins(Described.self, state_file, fs, sys_modules, routes,
                    registered_plugins, Described.openapi_schema, 1)

\* C30 as stated: a call of include_plugins made while a description is
\* cached clears it exactly when the call bound or unbound a route group.
C30_Original ==
    [][(out'.op = "include_plugins" /\ openapi_schema.cached) =>
            (~openapi_schema'.cached <=> (BoundAGroup \/ UnboundAGroup))
      ]_vars

\* C30: a call of include_plugins made while a description is cached clears
\* it exactly when the call bound a route group or took a route out of the
\* table, and leaves it as it is otherwise; a second call that follows a
\* call, with or without a description request between them, leaves the
\* routing table, the bound-fingerprint map and the cached description as
\* they are.
C30_Invalidation ==
    /\ [](out.op = "include_plugins" =>
            /\ IncludedAgain.routes = routes
            /\ IncludedAgain.registered = registered_plugins
            /\ IncludedAgain.openapi_schema = Described.openapi_schema
            /\ Described.openapi_schema.cached)
    /\ [][out'.op = "include_plugins" =>
            /\ openapi_schema.cached =>
                (~openapi_schema'.cached <=> (BoundAGroup \/ RemovedARoute))
            /\ ~(BoundAGroup \/ RemovedARoute) => openapi_schema' = openapi_schema
            /\ out.op = "include_plugins" =>
                /\ routes' = routes
                /\ registered_plugins' = registered_plugins
                /\ openapi_schema' = openapi_schema
         ]_vars

\* a description was cached and include_plugins, unbinding the route group
\* of a plugin that is gone, took a route out of the table and cleared it
C30_Witness ==
    /\ out.op = "include_plugins"
    /\ out.stale # {}
    /\ out.routes_changed
    /\ ~openapi_schema.cached
    /\ DOMAIN registered_plugins # {}
    /\ Len(routes) > Len(CoreRoutes)

\* a thread waits for a lock that another holder has
Blocked(t) == Doing(t, "acquire") /\ ~CanAcquire(locks[Instr(t).lock], t)
WaitsFor(t) == locks[Instr(t).lock].owner
\* following who waits for whom from t, n times, never leaves the waiting threads
RECURSIVE Stuck(_, _)
Stuck(t, n) ==
    IF ~Blocked(t) THEN FALSE
    ELSE IF n = 0 THEN TRUE ELSE Stuck(WaitsFor(t), n - 1)
Inside(t, op) == \E i \in DOMAIN threads[t] : threads[t][i].op = op

\* C24: in no interleaving of the public operations of the loader / state
\* store and of the permissions registry is a thread stuck: whoever waits
\* for a lock waits, directly or through other waiting threads, for a thread
\* that can go on.
C24_NoDeadlock ==
    \A t \in Threads : ~Stuck(t, Cardinality(Threads))

\* one thread is loading a plugin whose code registered a fragment, its
\* listener is calling back into the registry and waits for the lock a second
\* thread holds
C24_Witness ==
    \E t, u \in Threads :
        /\ t # u
        /\ Inside(t, "load_plugins") /\ Inside(t, "listener")
        /\ locks[LoaderLock].owner = t
        /\ Blocked(t) /\ WaitsFor(t) = u

\* C25 as stated: while the listeners of a mutating call are running, the
\* thread of that call holds the lock of the registry.
C25_Original ==
    \A t \in Threads : Inside(t, "_notify_change") => locks[PermLock].owner = t

\* C25: the lock of the registry is released before the listeners are
\* called: while a thread calls the listeners it does not hold the lock,
\* apart from the time a listener of its own is inside a registry operation;
\* and no thread ever waits for a lock it holds itself.
C25_Broadcast ==
    \A t \in Threads :
        /\ (threads[t] # <<>> /\ Top(t).op \in {"_notify_change", "listener"})
                => locks[PermLock].owner # t
        /\ Blocked(t) => WaitsFor(t) # t

\* the listeners of one thread's call are running while another thread is
\* inside a registry operation, holding the lock
C25_Witness ==
    \E t, u \in Threads :
        /\ t # u
        /\ threads[t] # <<>> /\ Top(t).op = "listener"
        /\ locks[PermLock].owner = u
        /\ Inside(u, "unregister")

\* C26: after the sync every role holds every name of default_permissions(),
\* what a role held before it still holds with the same value, and a second
\* sync changes nothing and updates no role; a role that was just created
\* holds every default and, for the names it was given, the given values.
C26_SyncOnlyAdds ==
    /\ out.op = "list_roles" =>
        /\ DOMAIN roles = DOMAIN out.before
        /\ \A r \in DOMAIN roles :
            /\ DOMAIN default_permissions(PSelf) \subseteq DOMAIN roles[r]
            /\ \A k \in DOMAIN out.before[r] :
                k \in DOMAIN roles[r] /\ roles[r][k] = out.before[r][k]
            /\ \A k \in DOMAIN roles[r] \ DOMAIN out.before[r] :
                roles[r][k] = default_permissions(PSelf)[k]
        /\ out.updated = Cardinality({r \in DOMAIN roles : roles[r] # out.before[r]})
        /\ sync_role_permissions(PSelf, roles) = roles
        /\ SyncUpdated(PSelf, roles) = 0
    /\ (out.op = "create_role" /\ out.status = 200) =>
        /\ DOMAIN roles[out.name] =
                DOMAIN default_permissions(PSelf) \cup DOMAIN out.permissions
        /\ \A k \in DOMAIN out.permissions : roles[out.name][k] = out.permissions[k]
        /\ \A k \in DOMAIN roles[out.name] \ DOMAIN out.permissions :
                roles[out.name][k] = default_permissions(PSelf)[k]

\* the sync updated a role that held its own value under a name that has
\* another default, and gave it a name it did not have
C26_Witness ==
    /\ out.op = "list_roles"
    /\ out.updated > 0
    /\ \E r \in DOMAIN roles :
        /\ \E k \in DOMAIN out.before[r] \cap DOMAIN default_permissions(PSelf) :
                out.before[r][k] # default_permissions(PSelf)[k]
        /\ DOMAIN roles[r] # DOMAIN out.before[r]

\* C27: get_plugin and switch_plugin answer 404 for a name that has no
\* record after their load pass; a switch that answered 404 left no entry for
\* the name in the state file and left the flag of every plugin that has a
\* record as it was; a switch that answered 200 returns a projection whose
\* enabled flag is the requested one, and so answers the store.
C27_Management ==
    /\ (out.op \in {"get_plugin", "switch_plugin"} /\ out.name \notin DOMAIN _records)
            => out.status = 404
    /\ (out.op = "switch_plugin" /\ out.status = 404) =>
        /\ out.name \notin DOMAIN _load_state(state_file)
        /\ \A q \in DOMAIN _records : Flags[q] = out.before[q]
    /\ (out.op = "switch_plugin" /\ out.status = 200) =>
        /\ out.ret.name = out.name
        /\ out.ret.enabled = out.enabled
        /\ Flags[out.name] = out.enabled
    /\ (out.op \in {"get_plugin", "switch_plugin"} /\ out.name \in DOMAIN _records)
            => out.status = 200

\* a switch to enabled answered 404 for a name without a record while
\* another plugin, which has a record, is enabled
C27_Witness ==
    /\ out.op = "switch_plugin" /\ out.status = 404 /\ out.enabled
    /\ \E q \in DOMAIN _records : Flags[q]

\* C28: a request to a bound route of a plugin that has a record and is
\* disabled is answered 503 and never 404, and a request is answered 503 only
\* for a plugin that has a record.
C28_Original ==
    out.op = "request" =>
        /\ (/\ Match(routes, <<"plugins", out.name, out.leaf>>) # 0
            /\ out.name \in DOMAIN _records
            /\ ~Flags[out.name]) => out.status = 503
        /\ out.status = 503 => out.name \in DOMAIN _records

\* the routes the route groups of a record give when bound under /plugins/<name>
RoutesOf(record) == IncludeRouters(<<>>, record.routers, record.name)
TaggedSeq(table, p) == SelectSeq(table, LAMBDA route : _is_plugin_route(route, p))

\* C29 as stated: after include_plugins, for every plugin name the routes of
\* the table tagged with it are exactly the routes of the route groups of its
\* current record (none without a record), and the bound-fingerprint map has
\* an entry exactly for the records with a route group, equal to the
\* fingerprint of the record.
C29_Original ==
    out.op = "include_plugins" =>
        /\ \A p \in Plugins :
            TaggedSeq(routes, p) =
                IF p \in DOMAIN _records THEN RoutesOf(_records[p]) ELSE <<>>
        /\ DOMAIN registered_plugins = {p \in DOMAIN _records : _records[p].routers # <<>>}
        /\ \A p \in DOMAIN registered_plugins :
                registered_plugins[p] = _records[p].module_mtime_ns

\* the fingerprint bound for p is the one its record has after the call
SameFingerprint(p) ==
    /\ p \in DOMAIN registered_plugins
    /\ registered_plugins[p] = _records'[p].module_mtime_ns

\* C29: after include_plugins, a plugin without record has no tagged route
\* and no entry in the bound-fingerprint map; a plugin whose record carries a
\* fingerprint other than the bound one, or that was not bound, has exactly
\* the routes of the route groups of its record (none when the record is
\* Failed or has no route group; no route of the earlier version is left) and
\* an entry exactly when it has a route group; a plugin whose record carries
\* the bound fingerprint keeps the routes that were bound, whatever the
\* record holds now; every entry of the map equals the fingerprint of the
\* record.
C29_Binding ==
    [][out'.op = "include_plugins" =>
        /\ \A p \in Plugins \ DOMAIN _records' :
            TaggedSeq(routes', p) = <<>> /\ p \notin DOMAIN registered_plugins'
        /\ \A p \in DOMAIN _records' :
            /\ ~SameFingerprint(p) =>
                /\ TaggedSeq(routes', p) = RoutesOf(_records'[p])
                /\ p \in DOMAIN registered_plugins' <=> _records'[p].routers # <<>>
            /\ SameFingerprint(p) =>
                /\ TaggedSeq(routes', p) = TaggedSeq(routes, p)
                /\ p \in DOMAIN registered_plugins'
            /\ (/\ p \in DOMAIN _records
                /\ _records'[p].rid = _records[p].rid
                /\ TaggedSeq(routes, p) = RoutesOf(_records[p]))
                    => TaggedSeq(routes', p) = RoutesOf(_records'[p])
        /\ \A p \in DOMAIN registered_plugins' :
            /\ p \in DOMAIN _records'
            /\ registered_plugins'[p] = _records'[p].module_mtime_ns
      ]_vars

\* include_plugins replaced the routes of a plugin whose text and
\* fingerprint changed: two routes of the new module are bound under
\* fingerprint 2 and none of the first module is left
C29_Witness ==
    /\ out.op = "include_plugins"
    /\ out.routes_changed
    /\ edits = 2
    /\ \E p \in DOMAIN registered_plugins :
        /\ registered_plugins[p] = 2
        /\ Len(TaggedSeq(routes, p)) = 2
        /\ \A i \in DOMAIN routes : routes[i].endpoint = <<p, 2>>

----------------------------------------------------------------------------
(* Properties of the calls that run on several threads *)

\* the call of thread t has ended as the same call does when it runs alone
\* from the state it found when it took the lock
EndsAsSequential(t) ==
    /\ ~Frame(t).raised
    /\ Self = Frame(t).expect.self
    /\ state_file = Frame(t).expect.file
    /\ sys_modules = Frame(t).expect.mods
    /\ Frame(t).op \in {"is_enabled", "load_plugins"} => Frame(t).ret = Frame(t).expect.ret

\* C31: the public operations of one PluginRegistry exclude each other for
\* their full duration: at most one thread is inside a call, every call ends
\* in the registry and the state file that the same call leaves when it runs
\* alone from the state it found when it took the lock (so the calls end as
\* in the sequential order in which they took the lock and no update is lost),
\* and when no call is running the state file holds the map in memory
C31_Serial ==
    /\ Cardinality({t \in Threads : Running(t)}) <= 1
    /\ \A t \in Threads : At(t, "release") => EndsAsSequential(t)
    /\ Quiet => /\ state_file.exists /\ state_file.ok
                /\ _load_state(state_file) = _state
                /\ tmp = NoFile

\* disable(b) ends on one thread after enable(a) ended on the other, with a
\* load pass waiting for the lock
C31_Witness ==
    /\ At("t2", "release") /\ Frame("t2").op = "disable" /\ Frame("t2").name = "b"
    /\ At("t1", "acquire") /\ Frame("t1").op = "load_plugins"
    /\ _state = [n \in {"a", "b"} |-> n = "a"]
    /\ _load_state(state_file) = _state

\* thread t is inside a load pass
InLoadPass(t) == Running(t) /\ Frame(t).op = "load_plugins"

\* C32: while a thread is inside a load pass (its loop over the plugins, where
\* the load routines run, included), every other thread that has called the
\* registry, the enabled guard is_enabled included, is still waiting for the
\* lock, cannot take it and has not failed; and an is_enabled that returns
\* answers with the entry of the map as it is then, which is what the state
\* file holds
C32_Blocks ==
    /\ \A t \in Threads : \A u \in Threads \ {t} :
            InLoadPass(t) /\ threads[u] # <<>> =>
                /\ At(u, "acquire")
                /\ ~MayEnter(u)
                /\ ~Frame(u).raised
    /\ \A u \in Threads :
            At(u, "release") /\ Frame(u).op = "is_enabled" =>
                /\ ~Frame(u).raised
                /\ Frame(u).ret = StateGet(_state, Frame(u).name)
                /\ _load_state(state_file) = _state

\* the pass is about to run the load routine of b, which has no record yet,
\* and the guard of a route of b waits on the other thread
C32_Witness ==
    /\ At("t1", "exec_module") /\ Frame("t1").op = "load_plugins"
    /\ Frame("t1").dirs # <<>> /\ Head(Frame("t1").dirs) = "b"
    /\ "b" \notin DOMAIN _records
    /\ At("t2", "acquire") /\ Frame("t2").op = "is_enabled" /\ Frame("t2").name = "b"

\* C33 as stated: when the include_plugins calls that ran on the two threads
\* have returned, the routes of the table tagged with a plugin are exactly the
\* routes of the route groups of its record, each once (none for a plugin
\* without record), and the bound-fingerprint map has an entry exactly for the
\* plugins with routes in the table.
C33_Original ==
    (NoBinder /\ out.op = "include_plugins") =>
        /\ \A p \in Plugins :
            TaggedSeq(routes, p) =
                IF p \in DOMAIN _records THEN RoutesOf(_records[p]) ELSE <<>>
        /\ DOMAIN registered_plugins = {p \in Plugins : TaggedSeq(routes, p) # <<>>}

ManagementOps == {"list_plugins", "get_plugin", "switch_plugin", "refresh_plugins"}

\* C34 as stated: when list, get, switch or refresh has completed, every route
\* of the table tagged with a plugin belongs to a plugin that has a record and
\* was contributed by the module object of a route group of that record.
C34_Original ==
    out.op \in ManagementOps =>
        \A i \in DOMAIN routes : \A p \in Plugins :
            _is_plugin_route(routes[i], p) =>
                /\ p \in DOMAIN _records
                /\ \E k \in DOMAIN _records[p].routers :
                        _records[p].routers[k].module = routes[i].endpoint

\* the registry object after the step
PSelfNext == [plugins |-> _plugins', fields |-> _fields', collisions |-> _collisions',
              model |-> _model', dirty |-> _dirty',
              change_listeners |-> _change_listeners']

\* C35 as stated: a register_many that raised left plugins(), fields(),
\* collisions() and the composed schema as they were before the call.
C35_Original ==
    [][(out'.op = "register_many" /\ out'.raised # None) =>
            /\ plugins(PSelfNext) = plugins(PSelf)
            /\ fields(PSelfNext) = fields(PSelf)
            /\ collisions(PSelfNext) = collisions(PSelf)
            /\ schema(PSelfNext) = schema(PSelf)
      ]_vars

HasColon(s) == \E i \in DOMAIN s : s[i] = ":"
ColonFree(model) ==
    /\ ~HasColon(model.name)
    /\ \A i \in DOMAIN model.model_fields : ~HasColon(model.model_fields[i].name)

\* the composed names of the registered fragment `record`
ComposedOf(record) ==
    {_build_transformed_name(record.prefix, record.model_class.name,
                             record.model_class.model_fields[i].name) :
        i \in DOMAIN record.model_class.model_fields}

\* the composed names two fields of one fragment share
SharedInside(record) ==
    {_build_transformed_name(record.prefix, record.model_class.name,
                             record.model_class.model_fields[i].name) :
        i \in {i \in DOMAIN record.model_class.model_fields :
                \E j \in DOMAIN record.model_class.model_fields :
                    /\ j # i
                    /\ record.model_class.model_fields[j].name
                            # record.model_class.model_fields[i].name
                    /\ Lower(record.model_class.model_fields[j].name)
                            = Lower(record.model_class.model_fields[i].name)}}

\* C36: when every registered fragment has a type name and field names
\* without colon, the composed names of two distinct registered fragments are
\* disjoint whatever their prefixes, every composed name of every registered
\* fragment is a key of fields() and belongs there to that fragment, and
\* every name of collisions() is shared by two fields of one fragment whose
\* names differ only in letter case
C36_Disjoint ==
    (\A i \in DOMAIN _plugins : ColonFree(_plugins[i].model_class)) =>
        /\ \A i, j \in DOMAIN _plugins :
                i # j => ComposedOf(_plugins[i]) \cap ComposedOf(_plugins[j]) = {}
        /\ \A i \in DOMAIN _plugins : \A n \in ComposedOf(_plugins[i]) :
                /\ n \in DOMAIN fields(PSelf)
                /\ _fields[n].source_plugin = _plugins[i].name
        /\ \A n \in collisions(PSelf) :
                \E i \in DOMAIN _plugins : n \in SharedInside(_plugins[i])

\* class X with the field Y is registered without prefix and class W with the
\* fields y and Y under a prefix: x:y and q:w:y are both in fields(), and the
\* only collision is the one inside W
C36_Witness ==
    /\ plugins(PSelf) = << <<"x">>, <<"w">> >>
    /\ ~Truthy(_plugins[1].prefix) /\ Truthy(_plugins[2].prefix)
    /\ {<<"x", ":", "y">>, <<"q", ":", "w", ":", "y">>} \subseteq DOMAIN fields(PSelf)
    /\ collisions(PSelf) = {<<"q", ":", "w", ":", "y">>}

\* C37 as stated: enable(name) and disable(name) leave every other entry of
\* the persisted map as the state file held it when the call was made.
C37_Original ==
    [][out'.op \in {"enable", "disable"} =>
        \A q \in Plugins \ {out'.name} :
            /\ q \in DOMAIN _load_state(state_file') <=> q \in DOMAIN OnDisk
            /\ q \in DOMAIN OnDisk => _load_state(state_file')[q] = OnDisk[q]
      ]_vars

\* C37: enable(name) and disable(name) write the map the store has after its
\* refresh with the entry of name set, and keep that map in memory: the
\* entries of the state file when the refresh reads it (the file has no
\* cached fingerprint or another modification time than the cached one),
\* no entry when the file is missing, and the entries of the map in memory
\* when the file still has the cached modification time, whatever was
\* written into it from outside
C37_Frame ==
    [][out'.op \in {"enable", "disable"} =>
        /\ _load_state(state_file') = Put(Refreshed.state, out'.name, out'.op = "enable")
        /\ _state' = _load_state(state_file')
        /\ Reloads(Self, state_file) => Refreshed.state = OnDisk
        /\ ~state_file.exists => Refreshed.state = EmptyMap
        /\ (state_file.exists /\ ~Reloads(Self, state_file)) => Refreshed.state = _state
      ]_vars

\* enable(a) has been called after edits from outside, and the file it wrote
\* holds the entry of b, a plugin that was never discovered
C37_Witness ==
    /\ out.op = "enable" /\ out.name = "a"
    /\ edits > 0
    /\ OnDisk = [q \in {"a", "b"} |-> TRUE]
    /\ "b" \notin DOMAIN _records /\ ~fs["b"].dir

\* C38 as stated: once a load pass has run (the registry holds a record, which
\* only a load pass makes), the state map in memory and in the file holds
\* entries of plugins with a current record only.
Ghosts == ((DOMAIN OnDisk) \cup (DOMAIN _state)) \ (DOMAIN _records)

C38_Original == _records # EmptyMap => Ghosts = {}

\* C38: when nobody else writes the state file, the file holds the map in
\* memory whenever it exists; right after a load pass the keys of the map are
\* the names of the current records, which are the plugin directories, so
\* every entry without a record is gone; enable(name) and disable(name) add
\* the entry of name whether or not name has a record, and no other entry
\* without a record; is_enabled, list and get add none.
C38_Pruned ==
    [][/\ state_file'.exists => OnDisk' = _state'
       /\ out'.op = "load_plugins" =>
            /\ state_file'.exists
            /\ DOMAIN _state' = DOMAIN _records'
            /\ DOMAIN _records' = Dirs
            /\ Ghosts' = {}
       /\ out'.op \in {"enable", "disable"} =>
            /\ out'.name \in DOMAIN OnDisk'
            /\ Ghosts' \subseteq Ghosts \cup {out'.name}
            /\ DOMAIN _records' = DOMAIN _records
       /\ out'.op \in {"is_enabled", "list", "get"} =>
            /\ Ghosts' \subseteq Ghosts
            /\ state_file' = state_file
      ]_vars

\* a load pass that found plugin a enabled and deleted another entry: the
\* entry of a was not added (added entries are false), so the update of the
\* pass was the deletion of an entry without a directory
C38_Witness ==
    /\ out.op = "load_plugins" /\ out.updated
    /\ DOMAIN _records = {"a"}
    /\ _state = [q \in {"a"} |-> TRUE]
    /\ OnDisk = _state

\* C39: a plugin directory without app.py is a state of its own, not a
\* failure of the pass.  After a load pass every directory has its record,
\* and the record of a directory without app.py carries the error
\* "app.py not found" (which no failed load gives), no route group and no
\* fingerprint, and the registry caches no fingerprint for it.  After
\* include_plugins such a plugin has no route in the table and no bound
\* fingerprint, whatever was bound for it before.  When app.py is there at
\* the next load pass, the pass executes it, whatever its modification time,
\* and the record carries the new fingerprint.
EntryMissing(p) == fs[p].dir /\ ~fs[p].app
NotFound(p) == p \in DOMAIN _records /\ _records[p].error = "app.py not found"

C39_Missing ==
    [][out'.op \in LoadOps =>
        /\ Range(out'.ret) = Dirs
        /\ \A p \in Plugins :
            /\ EntryMissing(p) =>
                /\ NotFound(p)'
                /\ _records'[p].error # ErrorOf("bad")
                /\ _records'[p].routers = <<>>
                /\ _records'[p].module_mtime_ns = NoMtime
                /\ p \notin DOMAIN _module_mtimes'
                /\ p \notin out'.executed
                /\ out'.op = "include_plugins" =>
                    /\ TaggedRoutes(routes', p) = {}
                    /\ p \notin DOMAIN registered_plugins'
                    /\ TaggedRoutes(routes, p) # {} => out'.routes_changed
            /\ (NotFound(p) /\ fs[p].app) =>
                /\ p \in out'.executed
                /\ _records'[p].module_mtime_ns = fs[p].mtime
                /\ _module_mtimes'[p] = fs[p].mtime
                /\ _records'[p].error = IF Raises(fs[p].src) THEN ErrorOf(fs[p].src) ELSE None
                /\ ~Raises(fs[p].src) =>
                        Len(_records'[p].routers) = Len(RouterPaths(fs[p].src))
      ]_vars

\* include_plugins has just taken the routes of plugin a out of the table:
\* a is the only plugin with a record, its directory has no app.py, nothing
\* was stale, and the table changed and is empty
C39_Witness ==
    /\ out.op = "include_plugins"
    /\ out.routes_changed /\ out.stale = {}
    /\ fs["a"] = EmptyDir /\ NotFound("a")
    /\ DOMAIN _records = {"a"}
    /\ routes = <<>> /\ registered_plugins = EmptyMap

----------------------------------------------------------------------------
(* Properties of the in-process requests *)

OpenClients == {c \in DOMAIN clients : ~IsClosed(clients, c)}
Closing == \E k \in Tasks : tasks[k].op = "shutdown"

\* In every interleaving of requests and shutdowns: a client is made only
\* when none is cached, so one client at most is open and every open client
\* is the cached one; a caller is handed the client that is cached when it
\* asks; the application has one shutdown handler at most; a request that is
\* made while no shutdown handler is inside client.aclose() is sent on an
\* open client, a fresh one when the cached one had been closed and
\* forgotten; a request made while the handler is inside aclose() is handed
\* the cached client, which is closed.
SharedClient ==
    [][/\ Len(clients') > Len(clients) => app_state.client = NoClient
       /\ OpenClients' \subseteq {app_state'.client}
       /\ app_state'.on_shutdown <= 1
       /\ app_state'.hook <=> app_state'.on_shutdown = 1
       /\ out'.op = "inprocess_request" =>
            /\ out'.client = out'.cached /\ out'.client # NoClient
            /\ app_state.client # NoClient => out'.client = app_state.client
            /\ ~Closing => ~out'.raised
            /\ Closing => out'.raised
            /\ out'.raised <=> IsClosed(clients', out'.client)
      ]_vars

\* a request made after a shutdown had closed and forgotten the first client
\* was given the second one
FreshClient ==
    /\ out.op = "inprocess_request" /\ out.client = 2 /\ ~out.raised
    /\ clients = <<"closed", "open">>

\* C40 as stated: for any interleaving, a client is made only when none is
\* cached, every caller gets the cached client, the shutdown handler is
\* registered once at most, and no request is sent on a client that was
\* closed: a request made after the close makes a fresh client.
C40_Original ==
    [][/\ Len(clients') > Len(clients) => app_state.client = NoClient
       /\ app_state'.on_shutdown <= 1
       /\ out'.op = "inprocess_request" =>
            /\ out'.client = out'.cached
            /\ ~out'.raised
      ]_vars

====
